---- MODULE Spec2Model ----
(***************************************************************************)
(* Seat reservation core of ticket-rush: the Seat entity, the Prisma       *)
(* repository with optimistic locking, the cache-aside decorator and the   *)
(* BookingService that runs lockSeat / releaseSeat / confirmSale as        *)
(* concurrent requests.  Every await of the TypeScript code is a step      *)
(* boundary: the code between two awaits is one atomic action.             *)
(***************************************************************************)
EXTENDS Integers, Sequences, FiniteSets, TLC

\* ------------------------------------------------------------------ bounds
MaxOps == 4                       \* calls begun in one behaviour

\* --------------------------------------------------------------- universe
Procs == {"p1", "p2"}             \* concurrent requests (one per HTTP call)
Users == {"u1", "u2"}
SeatIds == {"s1", "s2"}           \* s1 is seeded, s2 is never in the table
SeededSeats == {"s1"}
Ops == {"lockSeat", "releaseSeat", "confirmSale"}
NULL == "null"                    \* null of a string-valued field
NoSeat == [absent |-> TRUE]       \* null where a Seat or a row is expected

AVAILABLE == "AVAILABLE"
LOCKED == "LOCKED"
SOLD == "SOLD"

\* ------------------------------------------------------------ Seat entity
SeatCreate(id, eventId) ==
  [id |-> id, eventId |-> eventId, status |-> AVAILABLE, userId |-> NULL, version |-> 1]

\* mutant: the availability test lets a LOCKED seat through
isAvailableNotSold(seat) == seat.status # SOLD

isAvailable(seat) == seat.status = AVAILABLE

isLocked(seat) == seat.status = LOCKED

isSold(seat) == seat.status = SOLD

\* mutant: ownership is not compared
isLockedByAnyone(seat, userId) == seat.status = LOCKED

isLockedBy(seat, userId) == seat.status = LOCKED /\ seat.userId = userId

\* the transition methods throw when their guard fails: CanX is the guard,
\* X the new instance built from the receiver's props
\* mutant: only a SOLD seat refuses the lock
CanLockUnlessSold(seat) == seat.status # SOLD

CanLock(seat) == seat.status = AVAILABLE

\* mutant: the holder is not recorded
lockNoHolder(seat, userId) ==
  [seat EXCEPT !.status = LOCKED, !.version = seat.version + 1]

lock(seat, userId) ==
  [seat EXCEPT !.status = LOCKED, !.userId = userId, !.version = seat.version + 1]

CanSell(seat) == seat.status = LOCKED

\* mutant: the sale drops the holder
sellClearUser(seat) ==
  [seat EXCEPT !.status = SOLD, !.userId = NULL, !.version = seat.version + 1]

sell(seat) ==
  [seat EXCEPT !.status = SOLD, !.version = seat.version + 1]

CanRelease(seat) == seat.status = LOCKED

\* mutant: the release keeps the holder
releaseKeepUser(seat) ==
  [seat EXCEPT !.status = AVAILABLE, !.version = seat.version + 1]

release(seat) ==
  [seat EXCEPT !.status = AVAILABLE, !.userId = NULL, !.version = seat.version + 1]

\* toJSON copies the props; fromPersistence wraps props in a new Seat
toJSON(seat) ==
  [id |-> seat.id, eventId |-> seat.eventId, status |-> seat.status,
   userId |-> seat.userId, version |-> seat.version]

fromPersistence(props) ==
  [id |-> props.id, eventId |-> props.eventId, status |-> props.status,
   userId |-> props.userId, version |-> props.version]

\* ------------------------------------------------------- cache key naming
SeatKey(id) == <<"seat", id>>

EventSeatsKey(eventId) == <<"event", eventId, "seats">>

EventIds == {"evt-1", "evt-2"}

CacheKeys == {SeatKey(s) : s \in SeatIds} \cup {EventSeatsKey(e) : e \in EventIds}

\* ------------------------------------------------------------------ state
VARIABLES
  db,          \* seats table: id -> row or NULL
  cache,       \* redis: key -> JSON value or NULL
  pc,          \* per request: position in the call
  op,          \* per request: which BookingService method
  argSeat,     \* per request: seatId argument
  argUser,     \* per request: userId argument
  cur,         \* per request: the seat findById returned (or NULL)
  src,         \* per request: where cur came from ("cache" / "db" / NULL)
  nxt,         \* per request: the new instance handed to save
  result,      \* per request: outcome of the finished call
  scheduled,   \* events handed to eventPublisher.publish, in order
  nops,        \* calls begun so far
  commits,     \* history: per seat, versions written by successful updateMany
  okCalls,     \* history: per seat and method, calls that returned a seat
  saved,       \* history: per seat, newest version whose cached save() returned
  begun,       \* history: per request, the persisted row when the call began
  floor,       \* history: per request, saved[seat] when the call began
  argVersion,  \* per request: expectedVersion argument of findByIdWithVersion
  argEvent,    \* per request: eventId argument of findByEventId
  ttl,         \* redis: key -> seconds given to setex when the entry was written
  redisUp,     \* redis: whether commands reach the server and are answered
  raised,      \* per request: the error object the repository threw
  xCorrelationId, \* per request: its X-Correlation-ID header, `undefined` if none
  heap,        \* Seat instances by reference, each with how it was made
  thrown,      \* the error the last failed Seat method threw
  connection,  \* RabbitMQClient.connection (NULL or "open")
  channel,     \* RabbitMQClient.channel (NULL, "open", or "closed" after a channel error)
  isConnecting,    \* RabbitMQClient.isConnecting
  assertedQueues,  \* RabbitMQClient.assertedQueues
  attempt,     \* the loop counter of the connect() call in progress
  delay,       \* the local `delay` of the connect() call in progress, in ms
  lingering,   \* replaced connections that have emitted 'error' but not yet 'close'
  assertedOnChannel, \* history: queues this client has asserted on its current channel
  publishing,  \* per scheduled event, the state of its publish() promise
  queues,      \* broker: queue name -> messages ready for delivery
  sent,        \* history: every message the broker accepted, in order
  inflight,    \* worker: deliveries not yet acked or nacked, with handler position
  acked,       \* history: acknowledged deliveries with the tasks their run completed
  consumed,    \* history: ids of messages handed to the consumer callback
  redeliveries, \* history: ids of messages handed over again after a nack
  worker,      \* worker process: where its shutdown stands, and what it cut short
  currentCorrelationId \* worker process: the module variable its logger reads

bookingVars == <<db, cache, pc, op, argSeat, argUser, cur, src, nxt, result,
                 scheduled, nops, commits, okCalls, saved, begun, floor,
                 argVersion, argEvent, xCorrelationId, raised, ttl, redisUp>>

entityVars == <<heap, thrown>>

clientVars == <<connection, channel, isConnecting, assertedQueues, attempt, delay,
                lingering, assertedOnChannel>>

brokerVars == <<queues, sent>>

workerVars == <<inflight, acked, consumed, redeliveries, worker, currentCorrelationId>>

vars == <<bookingVars, entityVars, clientVars, publishing, brokerVars, workerVars>>

NoResult == [outcome |-> NULL, seat |-> NoSeat, status |-> NULL]

NoError == [name |-> NULL]

\* correlation ids: an absent header, field or context is `undefined`; an id
\* somebody chose is [id |-> ...]; uuidv4() gives a value no one else has,
\* told apart by who generated it and for what
undefined == [undefined |-> TRUE]

uuidv4(by, n) == [uuid |-> by, n |-> n]

CorrelationIds == {[id |-> "c1"], [id |-> "c2"]}

\* ------------------------------------------------- messaging constants
\* queue names of the publishing side
EVENT_QUEUES ==
  [TICKET_GENERATION |-> "ticket_generation_queue",
   NOTIFICATION |-> "notification_queue",
   ANALYTICS |-> "analytics_queue"]

\* mutant: the worker listens on a queue nothing is published to
TICKET_GENERATION_QUEUE_Analytics == "analytics_queue"

\* the queue the worker consumes
TICKET_GENERATION_QUEUE == "ticket_generation_queue"

QueueNames == {EVENT_QUEUES.TICKET_GENERATION, EVENT_QUEUES.NOTIFICATION,
               EVENT_QUEUES.ANALYTICS}

\* DEFAULT_RETRY_CONFIG.maxRetries
maxRetries == 5

\* DEFAULT_RETRY_CONFIG.initialDelayMs
initialDelayMs == 1000

\* DEFAULT_RETRY_CONFIG.maxDelayMs
maxDelayMs == 30000

\* DEFAULT_RETRY_CONFIG.backoffMultiplier
backoffMultiplier == 2

\* mutant: the consumer may hold two unacknowledged deliveries
prefetchCountTwo == 1 + 1

\* channel.prefetch(1)
prefetchCount == 1

\* the first Seat instance: Seat.create(...)
InitEntity ==
  /\ heap = <<[props |-> SeatCreate("s1", "evt-1"), method |-> "create", receiver |-> 0]>>
  /\ thrown = NoError

\* a fresh RabbitMQClient, empty queues, a worker that has started consuming
InitMessaging ==
  /\ connection = NULL
  /\ channel = NULL
  /\ isConnecting = FALSE
  /\ assertedQueues = {}
  /\ attempt = 0
  /\ delay = 0
  /\ lingering = 0
  /\ assertedOnChannel = {}
  /\ publishing = <<>>
  /\ queues = [q \in QueueNames |-> <<>>]
  /\ sent = <<>>
  /\ inflight = {}
  /\ acked = {}
  /\ consumed = {}
  /\ redeliveries = {}
  /\ worker = [state |-> "running", interrupted |-> {}]
  /\ currentCorrelationId = [id |-> "worker-startup"]

Init ==
  /\ db = [s \in SeatIds |-> IF s \in SeededSeats THEN SeatCreate(s, "evt-1") ELSE NoSeat]
  /\ cache = [k \in CacheKeys |-> NoSeat]
  /\ pc = [p \in Procs |-> "idle"]
  /\ op = [p \in Procs |-> NULL]
  /\ argSeat = [p \in Procs |-> NULL]
  /\ argUser = [p \in Procs |-> NULL]
  /\ cur = [p \in Procs |-> NoSeat]
  /\ src = [p \in Procs |-> NULL]
  /\ nxt = [p \in Procs |-> NoSeat]
  /\ result = [p \in Procs |-> NoResult]
  /\ scheduled = <<>>
  /\ nops = 0
  /\ commits = [s \in SeatIds |-> <<>>]
  /\ okCalls = [s \in SeatIds |-> [o \in Ops |-> 0]]
  /\ saved = [s \in SeatIds |-> 0]
  /\ begun = [p \in Procs |-> NoSeat]
  /\ floor = [p \in Procs |-> 0]
  /\ argVersion = [p \in Procs |-> 0]
  /\ argEvent = [p \in Procs |-> NULL]
  /\ ttl = [k \in CacheKeys |-> 0]
  /\ redisUp = TRUE
  /\ raised = [p \in Procs |-> NoError]
  /\ xCorrelationId = [p \in Procs |-> undefined]
  /\ InitEntity
  /\ InitMessaging

\* ------------------------------------------------- PrismaSeatRepository
\* findUnique({where: {id}}) mapped to the domain
RepoFindById(table, id) ==
  IF table[id] = NoSeat THEN NoSeat ELSE fromPersistence(table[id])

\* mutant: the where clause matches on id alone
UpdateManyCountNoVersion(table, id, version) ==
  IF table[id] # NoSeat THEN 1 ELSE 0

\* number of rows updateMany matches: where id = :id AND version = :version
UpdateManyCount(table, id, version) ==
  IF table[id] # NoSeat /\ table[id].version = version THEN 1 ELSE 0

\* mutant: the update forgets to write the new version
UpdatedRowKeepVersion(row, seatData) ==
  [row EXCEPT !.status = seatData.status, !.userId = seatData.userId]

\* the row updateMany writes: status, userId and version only
UpdatedRow(row, seatData) ==
  [row EXCEPT !.status = seatData.status, !.userId = seatData.userId,
              !.version = seatData.version]

\* outcome of save(seat) against the table: "ok", "ConcurrencyConflict", or
\* "DuplicateKey" when create meets an existing id
RepoSaveOutcome(table, seat) ==
  IF toJSON(seat).version = 1
    THEN IF table[seat.id] = NoSeat THEN "ok" ELSE "DuplicateKey"
    ELSE IF UpdateManyCount(table, seat.id, toJSON(seat).version - 1) = 0
           THEN "ConcurrencyConflict" ELSE "ok"

\* new ConcurrencyError(entityType, entityId, expectedVersion)
ConcurrencyError(entityType, entityId, expectedVersion) ==
  [name |-> "ConcurrencyError", entityType |-> entityType,
   entityId |-> entityId, expectedVersion |-> expectedVersion]

\* the unique-constraint error prisma.seat.create throws on an existing id
UniqueConstraintError == [name |-> "PrismaClientKnownRequestError", code |-> "P2002"]

\* mutant: the error reports the version the caller tried to write
RepoSaveErrorNewVersion(table, seat) ==
  IF RepoSaveOutcome(table, seat) = "ConcurrencyConflict"
    THEN ConcurrencyError("Seat", toJSON(seat).id, toJSON(seat).version)
  ELSE IF RepoSaveOutcome(table, seat) = "DuplicateKey" THEN UniqueConstraintError
  ELSE NoError

\* what save(seat) throws: previousVersion = seatData.version - 1
RepoSaveError(table, seat) ==
  IF RepoSaveOutcome(table, seat) = "ConcurrencyConflict"
    THEN ConcurrencyError("Seat", toJSON(seat).id, toJSON(seat).version - 1)
  ELSE IF RepoSaveOutcome(table, seat) = "DuplicateKey" THEN UniqueConstraintError
  ELSE NoError

\* findMany({where: {eventId}, orderBy: {seatNumber: 'asc'}}); the seats are
\* numbered in the order of SeatOrder
SeatOrder == <<"s1", "s2">>

RepoFindByEventId(table, eventId) ==
  LET ids == SelectSeq(SeatOrder,
                       LAMBDA s : table[s] # NoSeat /\ table[s].eventId = eventId) IN
    [i \in 1..Len(ids) |-> fromPersistence(table[ids[i]])]

\* findFirst({where: {id, version: expectedVersion}}), null when no row matches
RepoFindByIdWithVersion(table, id, expectedVersion) ==
  IF table[id] # NoSeat /\ table[id].version = expectedVersion
    THEN fromPersistence(table[id])
    ELSE NoSeat

\* the table after save(seat)
RepoSaveTable(table, seat) ==
  IF RepoSaveOutcome(table, seat) # "ok" THEN table
  ELSE IF toJSON(seat).version = 1
         THEN [table EXCEPT ![seat.id] = toJSON(seat)]
         ELSE [table EXCEPT ![seat.id] = UpdatedRow(table[seat.id], toJSON(seat))]

\* ------------------------------------------------------- domain events
\* createSeatLockedEvent's default lock duration, in minutes
lockDurationMinutes == 15

\* expiresAt is lockedAt plus the lock duration; the clock is not modelled,
\* the event carries the distance between the two
SeatLockedEvent(seat, userId) ==
  [eventType |-> "SEAT_LOCKED", queue |-> EVENT_QUEUES.NOTIFICATION,
   seatId |-> seat.id, eventId |-> seat.eventId, userId |-> userId,
   expiresAfterMinutes |-> lockDurationMinutes]

SeatSoldEvent(seat, userId) ==
  [eventType |-> "SEAT_SOLD", queue |-> EVENT_QUEUES.TICKET_GENERATION,
   seatId |-> seat.id, eventId |-> seat.eventId, userId |-> userId]

\* ------------------------------------------------------------- requests
Fail(outcome, status) == [outcome |-> outcome, seat |-> NoSeat, status |-> status]

Ok(seat) == [outcome |-> "ok", seat |-> seat, status |-> NULL]

Free(p) == pc[p] \in {"idle", "done"}

\* a request arrives, with or without an X-Correlation-ID header, and one
\* of the three methods is called; requests are interchangeable, so a new
\* one takes the first free slot
BeginRequest(p, o, s, u, c) ==
  /\ Free(p)
  /\ p = "p1" \/ ~Free("p1")
  /\ nops < MaxOps
  /\ nops' = nops + 1
  /\ pc' = [pc EXCEPT ![p] = "get"]
  /\ op' = [op EXCEPT ![p] = o]
  /\ argSeat' = [argSeat EXCEPT ![p] = s]
  /\ argUser' = [argUser EXCEPT ![p] = u]
  /\ cur' = [cur EXCEPT ![p] = NoSeat]
  /\ src' = [src EXCEPT ![p] = NULL]
  /\ nxt' = [nxt EXCEPT ![p] = NoSeat]
  /\ result' = [result EXCEPT ![p] = NoResult]
  /\ begun' = [begun EXCEPT ![p] = db[s]]
  /\ floor' = [floor EXCEPT ![p] = saved[s]]
  /\ raised' = [raised EXCEPT ![p] = NoError]
  /\ argVersion' = [argVersion EXCEPT ![p] = 0]
  /\ argEvent' = [argEvent EXCEPT ![p] = NULL]
  /\ xCorrelationId' = [xCorrelationId EXCEPT ![p] = c]
  /\ UNCHANGED <<db, cache, scheduled, commits, okCalls, saved, ttl, redisUp>>
  /\ UNCHANGED <<entityVars, clientVars, publishing, brokerVars, workerVars>>

\* a request whose client sent no X-Correlation-ID
Begin(p, o, s, u) == BeginRequest(p, o, s, u, undefined)

Max(a, b) == IF a >= b THEN a ELSE b

\* ------------------------------------------------------- RedisService
\* what CachedSeatRepository would see if a cache call rejected: it has no
\* try/catch of its own, so the rejection would end the repository call
CacheThrew == [absent |-> TRUE, threw |-> TRUE]

\* the TTL CachedSeatRepository passes to cache.set (DEFAULT_TTL_SECONDS,
\* and the value the container passes)
ttlSeconds == 60

\* mutant: the catch block of get throws again
RedisGetRethrow(key) == IF redisUp THEN cache[key] ELSE CacheThrew

\* RedisService.get: the stored value, null when there is none, and null
\* from the catch block when the command fails
RedisGet(key) == IF redisUp THEN cache[key] ELSE NoSeat

\* RedisService.set: setex(key, ttl, JSON.stringify(value)); a failing
\* command is logged and nothing is stored
RedisSet(key, value) == IF redisUp THEN [cache EXCEPT ![key] = value] ELSE cache

\* the expiry setex puts on the key
RedisSetTtl(key, seconds) == IF redisUp THEN [ttl EXCEPT ![key] = seconds] ELSE ttl

\* RedisService.delete: del(key); a failing command is logged and the entry stays
RedisDelete(key) == IF redisUp THEN [cache EXCEPT ![key] = NoSeat] ELSE cache

RedisDeleteTtl(key) == IF redisUp THEN [ttl EXCEPT ![key] = 0] ELSE ttl

\* CachedSeatRepository.findById, step 1: cache.get(seat:<id>)
CacheGet(p) ==
  /\ pc[p] = "get"
  /\ LET cached == RedisGet(SeatKey(argSeat[p])) IN
       IF cached = CacheThrew
         THEN /\ pc' = [pc EXCEPT ![p] = "done"]
              /\ result' = [result EXCEPT ![p] = Fail("CacheError", NULL)]
              /\ UNCHANGED <<cur, src>>
       ELSE IF cached # NoSeat
         THEN /\ cur' = [cur EXCEPT ![p] = fromPersistence(cached)]
              /\ src' = [src EXCEPT ![p] = "cache"]
              /\ pc' = [pc EXCEPT ![p] = "check"]
              /\ UNCHANGED result
         ELSE /\ pc' = [pc EXCEPT ![p] = "dbread"]
              /\ UNCHANGED <<cur, src, result>>
  /\ UNCHANGED <<db, cache, ttl, op, argSeat, argUser, nxt, scheduled, nops,
                 commits, okCalls, saved, begun, floor>>
  /\ UNCHANGED <<entityVars, clientVars, publishing, brokerVars, workerVars>>
  /\ UNCHANGED <<argVersion, argEvent, xCorrelationId, raised, redisUp>>

\* CachedSeatRepository.findById, step 2: repository.findById on a miss;
\* an absent seat is returned as null without touching the cache
DbRead(p) ==
  /\ pc[p] = "dbread"
  /\ cur' = [cur EXCEPT ![p] = RepoFindById(db, argSeat[p])]
  /\ src' = [src EXCEPT ![p] = "db"]
  /\ pc' = [pc EXCEPT ![p] = IF RepoFindById(db, argSeat[p]) = NoSeat
                               THEN "check" ELSE "cacheset"]
  /\ UNCHANGED <<db, cache, ttl, op, argSeat, argUser, nxt, result, scheduled, nops,
                 commits, okCalls, saved, begun, floor>>
  /\ UNCHANGED <<entityVars, clientVars, publishing, brokerVars, workerVars>>
  /\ UNCHANGED <<argVersion, argEvent, xCorrelationId, raised, redisUp>>

\* CachedSeatRepository.findById, step 3: cache.set(seat:<id>, seat.toJSON(), ttl)
CacheSet(p) ==
  /\ pc[p] = "cacheset"
  /\ cache' = RedisSet(SeatKey(argSeat[p]), toJSON(cur[p]))
  /\ ttl' = RedisSetTtl(SeatKey(argSeat[p]), ttlSeconds)
  /\ pc' = [pc EXCEPT ![p] = "check"]
  /\ UNCHANGED <<db, op, argSeat, argUser, cur, src, nxt, result, scheduled, nops,
                 commits, okCalls, saved, begun, floor>>
  /\ UNCHANGED <<entityVars, clientVars, publishing, brokerVars, workerVars>>
  /\ UNCHANGED <<argVersion, argEvent, xCorrelationId, raised, redisUp>>

\* mutant: a sweep frees a LOCKED seat when its cache entry expires
CacheExpireFreesLock(s) ==
  /\ cache[SeatKey(s)] # NoSeat
  /\ cache' = [cache EXCEPT ![SeatKey(s)] = NoSeat]
  /\ ttl' = [ttl EXCEPT ![SeatKey(s)] = 0]
  /\ db' = [db EXCEPT ![s] = IF @ # NoSeat /\ @.status = LOCKED
                                THEN [@ EXCEPT !.status = AVAILABLE, !.userId = NULL,
                                               !.version = @ + 1]
                                ELSE @]
  /\ UNCHANGED <<pc, op, argSeat, argUser, cur, src, nxt, result, scheduled,
                 nops, commits, okCalls, saved, begun, floor>>
  /\ UNCHANGED <<entityVars, clientVars, publishing, brokerVars, workerVars>>
  /\ UNCHANGED <<argVersion, argEvent, xCorrelationId, raised, redisUp>>

\* the key's TTL runs out
CacheExpire(s) ==
  /\ cache[SeatKey(s)] # NoSeat
  /\ cache' = [cache EXCEPT ![SeatKey(s)] = NoSeat]
  /\ ttl' = [ttl EXCEPT ![SeatKey(s)] = 0]
  /\ UNCHANGED <<db, pc, op, argSeat, argUser, cur, src, nxt, result, scheduled,
                 nops, commits, okCalls, saved, begun, floor>>
  /\ UNCHANGED <<entityVars, clientVars, publishing, brokerVars, workerVars>>
  /\ UNCHANGED <<argVersion, argEvent, xCorrelationId, raised, redisUp>>

\* what lockSeat does with the seat it read, up to the call of save
LockSeatDecision(seat, userId) ==
  IF seat = NoSeat THEN Fail("NotFound", NULL)
  ELSE IF ~isAvailable(seat) THEN Fail("NotAvailable", seat.status)
  ELSE IF ~CanLock(seat) THEN Fail("Error", seat.status)
  ELSE Ok(lock(seat, userId))

\* mutant: an absent seat falls into the ownership check
ReleaseSeatDecisionNoNullCheck(seat, userId) ==
  IF seat = NoSeat \/ ~isLockedBy(seat, userId) THEN Fail("Unauthorized", NULL)
  ELSE IF ~CanRelease(seat) THEN Fail("Error", seat.status)
  ELSE Ok(release(seat))

ReleaseSeatDecision(seat, userId) ==
  IF seat = NoSeat THEN Fail("NotFound", NULL)
  ELSE IF ~isLockedBy(seat, userId) THEN Fail("Unauthorized", NULL)
  ELSE IF ~CanRelease(seat) THEN Fail("Error", seat.status)
  ELSE Ok(release(seat))

ConfirmSaleDecision(seat, userId) ==
  IF seat = NoSeat THEN Fail("NotFound", NULL)
  ELSE IF ~isLockedBy(seat, userId) THEN Fail("Unauthorized", NULL)
  ELSE IF ~CanSell(seat) THEN Fail("Error", seat.status)
  ELSE Ok(sell(seat))

\* the synchronous code between findById returning and save being called
Decide(p, o, decision) ==
  /\ pc[p] = "check"
  /\ op[p] = o
  /\ IF decision.outcome = "ok"
       THEN /\ nxt' = [nxt EXCEPT ![p] = decision.seat]
            /\ pc' = [pc EXCEPT ![p] = "save"]
            /\ UNCHANGED result
            /\ UNCHANGED <<cur, src>>
       ELSE /\ result' = [result EXCEPT ![p] = decision]
            /\ pc' = [pc EXCEPT ![p] = "done"]
            /\ cur' = [cur EXCEPT ![p] = NoSeat]
            /\ src' = [src EXCEPT ![p] = NULL]
            /\ UNCHANGED nxt
  /\ UNCHANGED <<db, cache, ttl, op, argSeat, argUser, scheduled, nops,
                 commits, okCalls, saved, begun, floor>>
  /\ UNCHANGED <<entityVars, clientVars, publishing, brokerVars, workerVars>>
  /\ UNCHANGED <<argVersion, argEvent, xCorrelationId, raised, redisUp>>

LockSeatCheck(p) == Decide(p, "lockSeat", LockSeatDecision(cur[p], argUser[p]))

ReleaseSeatCheck(p) == Decide(p, "releaseSeat", ReleaseSeatDecision(cur[p], argUser[p]))

ConfirmSaleCheck(p) == Decide(p, "confirmSale", ConfirmSaleDecision(cur[p], argUser[p]))

\* mutant: save writes the instance it was given through to the cache before
\* the store has accepted it
StoreSaveWriteThrough(p) ==
  /\ pc[p] = "save"
  /\ LET outcome == RepoSaveOutcome(db, nxt[p]) IN
       /\ db' = RepoSaveTable(db, nxt[p])
       /\ IF outcome = "ok"
            THEN /\ pc' = [pc EXCEPT ![p] = "delseat"]
                 /\ commits' = [commits EXCEPT ![nxt[p].id] = Append(@, nxt[p].version)]
                 /\ UNCHANGED <<result, cur, src, nxt, raised>>
            ELSE /\ pc' = [pc EXCEPT ![p] = "done"]
                 /\ result' = [result EXCEPT ![p] = Fail(outcome, NULL)]
                 /\ raised' = [raised EXCEPT ![p] = RepoSaveError(db, nxt[p])]
                 /\ cur' = [cur EXCEPT ![p] = NoSeat]
                 /\ src' = [src EXCEPT ![p] = NULL]
                 /\ nxt' = [nxt EXCEPT ![p] = NoSeat]
                 /\ UNCHANGED commits
  /\ cache' = RedisSet(SeatKey(nxt[p].id), toJSON(nxt[p]))
  /\ ttl' = RedisSetTtl(SeatKey(nxt[p].id), ttlSeconds)
  /\ UNCHANGED <<op, argSeat, argUser, scheduled, nops,
                 okCalls, saved, begun, floor, argVersion, argEvent, xCorrelationId, redisUp>>
  /\ UNCHANGED <<entityVars, clientVars, publishing, brokerVars, workerVars>>

\* mutant: save invalidates the seat's key in a finally block, also when the
\* store write threw
StoreSaveInvalidating(p) ==
  /\ pc[p] = "save"
  /\ LET outcome == RepoSaveOutcome(db, nxt[p]) IN
       /\ db' = RepoSaveTable(db, nxt[p])
       /\ IF outcome = "ok"
            THEN /\ pc' = [pc EXCEPT ![p] = "delseat"]
                 /\ commits' = [commits EXCEPT ![nxt[p].id] = Append(@, nxt[p].version)]
                 /\ UNCHANGED <<result, cur, src, nxt, raised>>
            ELSE /\ pc' = [pc EXCEPT ![p] = "done"]
                 /\ result' = [result EXCEPT ![p] = Fail(outcome, NULL)]
                 /\ raised' = [raised EXCEPT ![p] = RepoSaveError(db, nxt[p])]
                 /\ cur' = [cur EXCEPT ![p] = NoSeat]
                 /\ src' = [src EXCEPT ![p] = NULL]
                 /\ nxt' = [nxt EXCEPT ![p] = NoSeat]
                 /\ UNCHANGED commits
  /\ cache' = IF RepoSaveOutcome(db, nxt[p]) = "ok" THEN cache
               ELSE RedisDelete(SeatKey(nxt[p].id))
  /\ ttl' = IF RepoSaveOutcome(db, nxt[p]) = "ok" THEN ttl
             ELSE RedisDeleteTtl(SeatKey(nxt[p].id))
  /\ UNCHANGED <<op, argSeat, argUser, scheduled, nops,
                 okCalls, saved, begun, floor, argVersion, argEvent, xCorrelationId, redisUp>>
  /\ UNCHANGED <<entityVars, clientVars, publishing, brokerVars, workerVars>>

\* CachedSeatRepository.save, step 1: repository.save(seat); a throw of the
\* repository leaves the cache untouched and ends the call
StoreSave(p) ==
  /\ pc[p] = "save"
  /\ LET outcome == RepoSaveOutcome(db, nxt[p]) IN
       /\ db' = RepoSaveTable(db, nxt[p])
       /\ IF outcome = "ok"
            THEN /\ pc' = [pc EXCEPT ![p] = "delseat"]
                 /\ commits' = [commits EXCEPT ![nxt[p].id] = Append(@, nxt[p].version)]
                 /\ UNCHANGED <<result, cur, src, nxt, raised>>
            ELSE /\ pc' = [pc EXCEPT ![p] = "done"]
                 /\ result' = [result EXCEPT ![p] = Fail(outcome, NULL)]
                 /\ raised' = [raised EXCEPT ![p] = RepoSaveError(db, nxt[p])]
                 /\ cur' = [cur EXCEPT ![p] = NoSeat]
                 /\ src' = [src EXCEPT ![p] = NULL]
                 /\ nxt' = [nxt EXCEPT ![p] = NoSeat]
                 /\ UNCHANGED commits
  /\ UNCHANGED <<cache, op, argSeat, argUser, scheduled, nops,
                 okCalls, saved, begun, floor, argVersion, argEvent, xCorrelationId, ttl, redisUp>>
  /\ UNCHANGED <<entityVars, clientVars, publishing, brokerVars, workerVars>>

\* CachedSeatRepository.save, step 2: cache.delete(seat:<id>)
CacheDeleteSeat(p) ==
  /\ pc[p] = "delseat"
  /\ cache' = RedisDelete(SeatKey(nxt[p].id))
  /\ ttl' = RedisDeleteTtl(SeatKey(nxt[p].id))
  /\ pc' = [pc EXCEPT ![p] = "delevent"]
  /\ UNCHANGED <<db, op, argSeat, argUser, cur, src, nxt, result, scheduled, nops,
                 commits, okCalls, saved, begun, floor>>
  /\ UNCHANGED <<entityVars, clientVars, publishing, brokerVars, workerVars>>
  /\ UNCHANGED <<argVersion, argEvent, xCorrelationId, raised, redisUp>>

\* CachedSeatRepository.save, step 3: cache.delete(event:<eventId>:seats);
\* save returns, and the rest of the method runs without another await:
\* lockSeat and confirmSale hand their event to publish, all three return
\* mutant: releaseSeat publishes too
ScheduleEveryMethod(o, seat, userId) ==
  IF o = "confirmSale" THEN <<SeatSoldEvent(seat, userId)>>
  ELSE <<SeatLockedEvent(seat, userId)>>

Schedule(o, seat, userId) ==
  IF o = "lockSeat" THEN <<SeatLockedEvent(seat, userId)>>
  ELSE IF o = "confirmSale" THEN <<SeatSoldEvent(seat, userId)>>
  ELSE <<>>

\* RabbitMQClient.isConnected()
isConnected == connection # NULL /\ channel # NULL

\* mutant: publish has run to its end before the caller goes on
PublishStartBlocking == "resolved"

\* where a publish() call stands when it first yields: connected, it has
\* yielded in `await ensureConnection()`; while another call connects, it
\* sleeps in waitForConnection; otherwise it is itself in connect(), waiting
\* for amqp.connect
PublishStart ==
  IF isConnected THEN "ensured"
  ELSE IF isConnecting THEN "wait"
  ELSE "connect"

\* eventPublisher.publish(queue, event) up to its first await; the promise
\* it returns is not awaited
\* getContext() as the code of request p sees it: the AsyncLocalStorage has
\* a store only inside runWithContext, and no route handler runs inside it
getContext(p) == undefined

\* getCorrelationId(): context?.correlationId ?? uuidv4()
getCorrelationId(context, fresh) ==
  IF context # undefined THEN context.correlationId ELSE fresh

\* event.correlationId; the factories copy params.correlationId, which
\* BookingService never passes
EventCorrelationId(event) ==
  IF "correlationId" \in DOMAIN event THEN event.correlationId ELSE undefined

\* RabbitMQEventPublisher.publish: event.correlationId ?? getCorrelationId()
PublisherCorrelationId(event, context, fresh) ==
  IF EventCorrelationId(event) # undefined THEN EventCorrelationId(event)
  ELSE getCorrelationId(context, fresh)

\* correlationId is what goes into the x-correlation-id header; requestId
\* is history: the X-Correlation-ID of the request that made the call
PublishCall(context, requestId, events) ==
  IF events = <<>>
    THEN UNCHANGED <<clientVars, publishing>>
    ELSE /\ publishing' = Append(publishing,
                [pc |-> PublishStart, cause |-> NULL, msgId |-> 0,
                 correlationId |-> PublisherCorrelationId(events[1], context,
                                     uuidv4("publisher", Len(publishing) + 1)),
                 requestId |-> requestId])
         /\ isConnecting' = (isConnecting \/ ~isConnected)
         /\ attempt' = IF ~isConnected /\ ~isConnecting THEN 1 ELSE attempt
         /\ delay' = IF ~isConnected /\ ~isConnecting THEN initialDelayMs ELSE delay
         /\ UNCHANGED <<connection, channel, assertedQueues, lingering, assertedOnChannel>>

CacheDeleteEventAndReturn(p) ==
  /\ pc[p] = "delevent"
  /\ cache' = RedisDelete(EventSeatsKey(nxt[p].eventId))
  /\ ttl' = RedisDeleteTtl(EventSeatsKey(nxt[p].eventId))
  /\ saved' = [saved EXCEPT ![nxt[p].id] = Max(@, nxt[p].version)]
  /\ scheduled' = scheduled \o Schedule(op[p], nxt[p], argUser[p])
  /\ PublishCall(getContext(p), xCorrelationId[p], Schedule(op[p], nxt[p], argUser[p]))
  /\ UNCHANGED <<entityVars, brokerVars, workerVars>>
  /\ UNCHANGED <<argVersion, argEvent, xCorrelationId, raised, redisUp>>
  /\ result' = [result EXCEPT ![p] = Ok(nxt[p])]
  /\ okCalls' = IF op[p] \in Ops
                  THEN [okCalls EXCEPT ![nxt[p].id][op[p]] = @ + 1]
                  ELSE okCalls
  /\ pc' = [pc EXCEPT ![p] = "done"]
  /\ cur' = [cur EXCEPT ![p] = NoSeat]
  /\ src' = [src EXCEPT ![p] = NULL]
  /\ nxt' = [nxt EXCEPT ![p] = NoSeat]
  /\ UNCHANGED <<db, op, argSeat, argUser, nops, commits, begun, floor>>

Next ==
  \/ \E p \in Procs, o \in Ops, s \in SeatIds, u \in Users : Begin(p, o, s, u)
  \/ \E p \in Procs : CacheGet(p)
  \/ \E p \in Procs : DbRead(p)
  \/ \E p \in Procs : CacheSet(p)
  \/ \E s \in SeatIds : CacheExpire(s)
  \/ \E p \in Procs : LockSeatCheck(p)
  \/ \E p \in Procs : ReleaseSeatCheck(p)
  \/ \E p \in Procs : ConfirmSaleCheck(p)
  \/ \E p \in Procs : StoreSave(p)
  \/ \E p \in Procs : CacheDeleteSeat(p)
  \/ \E p \in Procs : CacheDeleteEventAndReturn(p)

Spec == Init /\ [][Next]_vars

\* ---------------------------------------------------------------------
\* The table as the booking tests seed it: the seat already locked by u1
\* (Seat.create(...).lock(user)), nothing cached yet.
InitLocked ==
  /\ db = [s \in SeatIds |-> IF s \in SeededSeats
                               THEN toJSON(lock(SeatCreate(s, "evt-1"), "u1"))
                               ELSE NoSeat]
  /\ cache = [k \in CacheKeys |-> NoSeat]
  /\ pc = [p \in Procs |-> "idle"]
  /\ op = [p \in Procs |-> NULL]
  /\ argSeat = [p \in Procs |-> NULL]
  /\ argUser = [p \in Procs |-> NULL]
  /\ cur = [p \in Procs |-> NoSeat]
  /\ src = [p \in Procs |-> NULL]
  /\ nxt = [p \in Procs |-> NoSeat]
  /\ result = [p \in Procs |-> NoResult]
  /\ scheduled = <<>>
  /\ nops = 0
  /\ commits = [s \in SeatIds |-> <<>>]
  /\ okCalls = [s \in SeatIds |-> [o \in Ops |-> 0]]
  /\ saved = [s \in SeatIds |-> 0]
  /\ begun = [p \in Procs |-> NoSeat]
  /\ floor = [p \in Procs |-> 0]
  /\ argVersion = [p \in Procs |-> 0]
  /\ argEvent = [p \in Procs |-> NULL]
  /\ ttl = [k \in CacheKeys |-> 0]
  /\ redisUp = TRUE
  /\ raised = [p \in Procs |-> NoError]
  /\ xCorrelationId = [p \in Procs |-> undefined]
  /\ InitEntity
  /\ InitMessaging

SpecLocked == InitLocked /\ [][Next]_vars

\* The race of race-test.js: two lockSeat calls on the same AVAILABLE seat
\* are in flight together and nothing else runs.
InitRace ==
  /\ db = [s \in SeatIds |-> IF s \in SeededSeats THEN SeatCreate(s, "evt-1") ELSE NoSeat]
  /\ cache = [k \in CacheKeys |-> NoSeat]
  /\ pc = [p \in Procs |-> "get"]
  /\ op = [p \in Procs |-> "lockSeat"]
  /\ argSeat = [p \in Procs |-> "s1"]
  /\ argUser \in [Procs -> Users]
  /\ cur = [p \in Procs |-> NoSeat]
  /\ src = [p \in Procs |-> NULL]
  /\ nxt = [p \in Procs |-> NoSeat]
  /\ result = [p \in Procs |-> NoResult]
  /\ scheduled = <<>>
  /\ nops = Cardinality(Procs)
  /\ commits = [s \in SeatIds |-> <<>>]
  /\ okCalls = [s \in SeatIds |-> [o \in Ops |-> 0]]
  /\ saved = [s \in SeatIds |-> 0]
  /\ begun = [p \in Procs |-> db[argSeat[p]]]
  /\ floor = [p \in Procs |-> 0]
  /\ argVersion = [p \in Procs |-> 0]
  /\ argEvent = [p \in Procs |-> NULL]
  /\ ttl = [k \in CacheKeys |-> 0]
  /\ redisUp = TRUE
  /\ raised = [p \in Procs |-> NoError]
  /\ xCorrelationId = [p \in Procs |-> undefined]
  /\ InitEntity
  /\ InitMessaging

NextRace ==
  \/ \E p \in Procs : CacheGet(p)
  \/ \E p \in Procs : DbRead(p)
  \/ \E p \in Procs : CacheSet(p)
  \/ \E s \in SeatIds : CacheExpire(s)
  \/ \E p \in Procs : LockSeatCheck(p)
  \/ \E p \in Procs : StoreSave(p)
  \/ \E p \in Procs : CacheDeleteSeat(p)
  \/ \E p \in Procs : CacheDeleteEventAndReturn(p)

SpecRace == InitRace /\ [][NextRace]_vars

\* The client of the lock route gets 409 with `retryable: true` and sends
\* the same request again, here while no other request is in progress.
Retry(p) ==
  /\ pc[p] = "done"
  /\ result[p].outcome = "ConcurrencyConflict"
  /\ \A q \in Procs \ {p} : Free(q)
  /\ nops < MaxOps
  /\ nops' = nops + 1
  /\ pc' = [pc EXCEPT ![p] = "get"]
  /\ result' = [result EXCEPT ![p] = NoResult]
  /\ raised' = [raised EXCEPT ![p] = NoError]
  /\ begun' = [begun EXCEPT ![p] = db[argSeat[p]]]
  /\ floor' = [floor EXCEPT ![p] = saved[argSeat[p]]]
  /\ UNCHANGED <<db, cache, op, argSeat, argUser, cur, src, nxt, scheduled,
                 commits, okCalls, saved, argVersion, argEvent, xCorrelationId, ttl, redisUp>>
  /\ UNCHANGED <<entityVars, clientVars, publishing, brokerVars, workerVars>>

NextRetry ==
  \/ NextRace
  \/ \E p \in Procs : Retry(p)

SpecRetry == InitRace /\ [][NextRetry]_vars

\* ---------------------------------------------------------------------
\* The repository as the routes and the container use it directly:
\* findByEventId (seats route), findByIdWithVersion and save of a new seat.
ListResult(seats) ==
  [outcome |-> "ok", seat |-> NoSeat, status |-> NULL, seats |-> seats]

\* a call of a repository method takes a free request slot
BeginRepo(p, o, first) ==
  /\ Free(p)
  /\ p = "p1" \/ ~Free("p1")
  /\ nops < MaxOps
  /\ nops' = nops + 1
  /\ pc' = [pc EXCEPT ![p] = first]
  /\ op' = [op EXCEPT ![p] = o]
  /\ argUser' = [argUser EXCEPT ![p] = NULL]
  /\ cur' = [cur EXCEPT ![p] = NoSeat]
  /\ src' = [src EXCEPT ![p] = NULL]
  /\ result' = [result EXCEPT ![p] = NoResult]
  /\ raised' = [raised EXCEPT ![p] = NoError]
  /\ begun' = [begun EXCEPT ![p] = NoSeat]
  /\ floor' = [floor EXCEPT ![p] = 0]
  /\ UNCHANGED <<db, cache, scheduled, commits, okCalls, saved, ttl, redisUp,
                 xCorrelationId>>
  /\ UNCHANGED <<entityVars, clientVars, publishing, brokerVars, workerVars>>

\* GET /events/:eventId/seats calls seatRepository.findByEventId(eventId)
BeginFindByEventId(p, eventId) ==
  /\ BeginRepo(p, "findByEventId", "listget")
  /\ argEvent' = [argEvent EXCEPT ![p] = eventId]
  /\ argSeat' = [argSeat EXCEPT ![p] = NULL]
  /\ argVersion' = [argVersion EXCEPT ![p] = 0]
  /\ nxt' = [nxt EXCEPT ![p] = NoSeat]

\* findByIdWithVersion(id, expectedVersion) is called
BeginFindByIdWithVersion(p, id, expectedVersion) ==
  /\ BeginRepo(p, "findByIdWithVersion", "verread")
  /\ argEvent' = [argEvent EXCEPT ![p] = NULL]
  /\ argSeat' = [argSeat EXCEPT ![p] = id]
  /\ argVersion' = [argVersion EXCEPT ![p] = expectedVersion]
  /\ nxt' = [nxt EXCEPT ![p] = NoSeat]

\* save(seat) is called with an instance the caller made itself
BeginSave(p, seat) ==
  /\ BeginRepo(p, "save", "save")
  /\ argEvent' = [argEvent EXCEPT ![p] = NULL]
  /\ argSeat' = [argSeat EXCEPT ![p] = seat.id]
  /\ argVersion' = [argVersion EXCEPT ![p] = 0]
  /\ nxt' = [nxt EXCEPT ![p] = seat]

\* the frame of the steps of findByEventId and findByIdWithVersion
ReadFrame ==
  /\ UNCHANGED <<db, op, argSeat, argUser, nxt, scheduled, nops,
                 commits, okCalls, saved, begun, floor>>
  /\ UNCHANGED <<entityVars, clientVars, publishing, brokerVars, workerVars>>
  /\ UNCHANGED <<argVersion, argEvent, xCorrelationId, raised, redisUp>>

\* CachedSeatRepository.findByEventId, step 1: cache.get(event:<id>:seats);
\* a hit is mapped through Seat.fromPersistence and returned
ListCacheGet(p) ==
  /\ pc[p] = "listget"
  /\ LET cached == RedisGet(EventSeatsKey(argEvent[p])) IN
       IF cached = CacheThrew
         THEN /\ pc' = [pc EXCEPT ![p] = "done"]
              /\ result' = [result EXCEPT ![p] = Fail("CacheError", NULL)]
              /\ UNCHANGED src
       ELSE IF cached # NoSeat
         THEN /\ pc' = [pc EXCEPT ![p] = "done"]
              /\ result' = [result EXCEPT ![p] = ListResult(
                    [i \in 1..Len(cached.seats) |-> fromPersistence(cached.seats[i])])]
              /\ src' = [src EXCEPT ![p] = "cache"]
         ELSE /\ pc' = [pc EXCEPT ![p] = "listread"]
              /\ UNCHANGED <<result, src>>
  /\ UNCHANGED <<cache, ttl, cur>>
  /\ ReadFrame

\* mutant: the list is cached whatever its length
ShouldCacheListAlways(seats) == TRUE

\* `if (seats.length > 0)`
ShouldCacheList(seats) == Len(seats) > 0

\* CachedSeatRepository.findByEventId, step 2: repository.findByEventId on
\* a miss; an empty list is returned without touching the cache
ListDbRead(p) ==
  /\ pc[p] = "listread"
  /\ LET seats == RepoFindByEventId(db, argEvent[p]) IN
       IF ShouldCacheList(seats)
         THEN /\ cur' = [cur EXCEPT ![p] = [seats |-> seats]]
              /\ pc' = [pc EXCEPT ![p] = "listset"]
              /\ UNCHANGED result
         ELSE /\ result' = [result EXCEPT ![p] = ListResult(seats)]
              /\ pc' = [pc EXCEPT ![p] = "done"]
              /\ UNCHANGED cur
  /\ src' = [src EXCEPT ![p] = "db"]
  /\ UNCHANGED <<cache, ttl>>
  /\ ReadFrame

\* CachedSeatRepository.findByEventId, step 3: cache.set(event:<id>:seats,
\* seats.map(toJSON), ttl), then the seats are returned
ListCacheSet(p) ==
  /\ pc[p] = "listset"
  /\ cache' = RedisSet(EventSeatsKey(argEvent[p]),
                       [seats |-> [i \in 1..Len(cur[p].seats) |-> toJSON(cur[p].seats[i])]])
  /\ ttl' = RedisSetTtl(EventSeatsKey(argEvent[p]), ttlSeconds)
  /\ result' = [result EXCEPT ![p] = ListResult(cur[p].seats)]
  /\ cur' = [cur EXCEPT ![p] = NoSeat]
  /\ pc' = [pc EXCEPT ![p] = "done"]
  /\ UNCHANGED src
  /\ ReadFrame

\* the list key's TTL runs out
CacheExpireList(e) ==
  /\ cache[EventSeatsKey(e)] # NoSeat
  /\ cache' = [cache EXCEPT ![EventSeatsKey(e)] = NoSeat]
  /\ ttl' = [ttl EXCEPT ![EventSeatsKey(e)] = 0]
  /\ UNCHANGED <<pc, cur, result, src>>
  /\ ReadFrame

\* mutant: the version read answers from the cache when it can
FindByIdWithVersionCached(id, expectedVersion) ==
  IF cache[SeatKey(id)] # NoSeat
    THEN IF cache[SeatKey(id)].version = expectedVersion
           THEN fromPersistence(cache[SeatKey(id)]) ELSE NoSeat
    ELSE RepoFindByIdWithVersion(db, id, expectedVersion)

\* CachedSeatRepository.findByIdWithVersion: the call is passed on to the
\* repository as it is
FindByIdWithVersion(id, expectedVersion) ==
  RepoFindByIdWithVersion(db, id, expectedVersion)

\* the one await of findByIdWithVersion: the store answers
VersionRead(p) ==
  /\ pc[p] = "verread"
  /\ result' = [result EXCEPT ![p] = Ok(FindByIdWithVersion(argSeat[p], argVersion[p]))]
  /\ pc' = [pc EXCEPT ![p] = "done"]
  /\ UNCHANGED <<cache, ttl, cur, src>>
  /\ ReadFrame

\* commands to redis start failing (the server is unreachable) ...
RedisGoesDown ==
  /\ redisUp
  /\ redisUp' = FALSE
  /\ UNCHANGED <<db, cache, pc, op, argSeat, argUser, cur, src, nxt, result,
                 scheduled, nops, commits, okCalls, saved, begun, floor,
                 argVersion, argEvent, xCorrelationId, raised, ttl>>
  /\ UNCHANGED <<entityVars, clientVars, publishing, brokerVars, workerVars>>

\* ... and work again, the stored entries still there
RedisComesBack ==
  /\ ~redisUp
  /\ redisUp' = TRUE
  /\ UNCHANGED <<db, cache, pc, op, argSeat, argUser, cur, src, nxt, result,
                 scheduled, nops, commits, okCalls, saved, begun, floor,
                 argVersion, argEvent, xCorrelationId, raised, ttl>>
  /\ UNCHANGED <<entityVars, clientVars, publishing, brokerVars, workerVars>>

\* requests of one user on the seeded seat, the seat list of both events,
\* version reads, and saves of new seats
NextRepo ==
  \/ \E p \in Procs, o \in Ops : Begin(p, o, "s1", "u1")
  \/ \E p \in Procs, e \in EventIds : BeginFindByEventId(p, e)
  \/ \E p \in Procs, s \in SeatIds, v \in 1..2 : BeginFindByIdWithVersion(p, s, v)
  \/ \E p \in Procs, s \in SeatIds : BeginSave(p, SeatCreate(s, "evt-1"))
  \/ \E p \in Procs : CacheGet(p)
  \/ \E p \in Procs : DbRead(p)
  \/ \E p \in Procs : CacheSet(p)
  \/ \E s \in SeatIds : CacheExpire(s)
  \/ \E e \in EventIds : CacheExpireList(e)
  \/ \E p \in Procs : LockSeatCheck(p)
  \/ \E p \in Procs : ReleaseSeatCheck(p)
  \/ \E p \in Procs : ConfirmSaleCheck(p)
  \/ \E p \in Procs : StoreSave(p)
  \/ \E p \in Procs : CacheDeleteSeat(p)
  \/ \E p \in Procs : CacheDeleteEventAndReturn(p)
  \/ \E p \in Procs : ListCacheGet(p)
  \/ \E p \in Procs : ListDbRead(p)
  \/ \E p \in Procs : ListCacheSet(p)
  \/ \E p \in Procs : VersionRead(p)

SpecRepo == Init /\ [][NextRepo]_vars

\* the calls that go through the cache, with redis failing and recovering
\* at any point
NextRepoFail ==
  \/ \E p \in Procs, o \in Ops : Begin(p, o, "s1", "u1")
  \/ \E p \in Procs, e \in EventIds : BeginFindByEventId(p, e)
  \/ \E p \in Procs : CacheGet(p)
  \/ \E p \in Procs : DbRead(p)
  \/ \E p \in Procs : CacheSet(p)
  \/ \E s \in SeatIds : CacheExpire(s)
  \/ \E e \in EventIds : CacheExpireList(e)
  \/ \E p \in Procs : LockSeatCheck(p)
  \/ \E p \in Procs : ReleaseSeatCheck(p)
  \/ \E p \in Procs : ConfirmSaleCheck(p)
  \/ \E p \in Procs : StoreSave(p)
  \/ \E p \in Procs : CacheDeleteSeat(p)
  \/ \E p \in Procs : CacheDeleteEventAndReturn(p)
  \/ \E p \in Procs : ListCacheGet(p)
  \/ \E p \in Procs : ListDbRead(p)
  \/ \E p \in Procs : ListCacheSet(p)
  \/ RedisGoesDown
  \/ RedisComesBack

SpecRepoFail == Init /\ [][NextRepoFail]_vars

\* ---------------------------------------------------------------------
\* Seat instances as objects: every instance has a reference (its index in
\* heap); a caller that keeps a reference keeps seeing heap[reference].
MaxObjects == 5

References == 1..Len(heap)

otherThanHeap == <<bookingVars, thrown, clientVars, publishing, brokerVars, workerVars>>

\* mutant: the method assigns to the receiver's props and returns `this`
TransitionInPlace(h, r, props, method) ==
  [h EXCEPT ![r] = [@ EXCEPT !.props = props]]

\* `return new Seat({...this.props, ...})`: the constructor freezes a new
\* props object, the receiver keeps its own
Transition(h, r, props, method) ==
  Append(h, [props |-> props, method |-> method, receiver |-> r])

\* seat.lock(userId) on the instance r
SeatLock(r, userId) ==
  /\ Len(heap) < MaxObjects
  /\ CanLock(heap[r].props)
  /\ heap' = Transition(heap, r, lock(heap[r].props, userId), "lock")
  /\ UNCHANGED otherThanHeap

\* seat.sell() on the instance r
SeatSell(r) ==
  /\ Len(heap) < MaxObjects
  /\ CanSell(heap[r].props)
  /\ heap' = Transition(heap, r, sell(heap[r].props), "sell")
  /\ UNCHANGED otherThanHeap

\* seat.release() on the instance r
SeatRelease(r) ==
  /\ Len(heap) < MaxObjects
  /\ CanRelease(heap[r].props)
  /\ heap' = Transition(heap, r, release(heap[r].props), "release")
  /\ UNCHANGED otherThanHeap

\* new Error(`Cannot <method> seat: current status is ${this.props.status}`),
\* thrown by the method called on the instance r
SeatError(method, r) ==
  [name |-> "Error",
   message |-> <<"Cannot", method, "seat: current status is", heap[r].props.status>>,
   receiver |-> r]

\* seat.lock(userId) on an instance that is not AVAILABLE throws
SeatLockThrows(r, userId) ==
  /\ ~CanLock(heap[r].props)
  /\ thrown' = SeatError("lock", r)
  /\ UNCHANGED <<heap, bookingVars, clientVars, publishing, brokerVars, workerVars>>

\* seat.sell() on an instance that is not LOCKED throws
SeatSellThrows(r) ==
  /\ ~CanSell(heap[r].props)
  /\ thrown' = SeatError("sell", r)
  /\ UNCHANGED <<heap, bookingVars, clientVars, publishing, brokerVars, workerVars>>

\* seat.release() on an instance that is not LOCKED throws
SeatReleaseThrows(r) ==
  /\ ~CanRelease(heap[r].props)
  /\ thrown' = SeatError("release", r)
  /\ UNCHANGED <<heap, bookingVars, clientVars, publishing, brokerVars, workerVars>>

NextEntity ==
  \/ \E r \in References, u \in Users : SeatLock(r, u)
  \/ \E r \in References : SeatSell(r)
  \/ \E r \in References : SeatRelease(r)
  \/ \E r \in References, u \in Users : SeatLockThrows(r, u)
  \/ \E r \in References : SeatSellThrows(r)
  \/ \E r \in References : SeatReleaseThrows(r)

SpecEntity == Init /\ [][NextEntity]_vars

\* ---------------------------------------------------------------------
\* Publishing: RabbitMQEventPublisher.publish over RabbitMQClient.publish.
\* Task t is the publish() call made for scheduled[t].
Tasks == 1..Len(scheduled)

\* JSON.stringify(message) / JSON.parse(content): a text that parses carries
\* the value, any other text makes JSON.parse throw
JSONstringify(value) == [json |-> TRUE, value |-> value]

NotJSON == [json |-> FALSE, value |-> NoSeat]

JSONparses(content) == content.json

\* the event object of a publish call
EventOf(call) ==
  [f \in DOMAIN call \ {"queue"} |-> call[f]]

\* the message sendToQueue writes; the broker numbers messages as they arrive
NewMessage(content, headers) ==
  [id |-> Len(sent) + 1, content |-> content, headers |-> headers,
   redelivered |-> FALSE]

\* the headers option of a publish: {'x-correlation-id': correlationId}
Headers(correlationId) == [xCorrelationId |-> correlationId]

\* mutant: the catch block of the publisher throws again
PublisherOutcomeRethrow(clientOutcome) ==
  IF clientOutcome = "sent" THEN "resolved" ELSE "rejected"

\* how the promise of RabbitMQEventPublisher.publish settles, given how
\* client.publish ended: the try/catch logs and swallows every throw
PublisherOutcome(clientOutcome) == "resolved"

\* msgId is history: the number the broker gave the message, 0 if none
Settle(t, clientOutcome) ==
  publishing' = [publishing EXCEPT ![t] =
                   [@ EXCEPT !.pc = PublisherOutcome(clientOutcome),
                             !.cause = clientOutcome,
                             !.msgId = IF clientOutcome = "sent" THEN Len(sent) + 1 ELSE 0]]

\* channel.sendToQueue(queue, buffer, {persistent, ...}); it throws on a
\* channel that is no longer open
SendToQueue(t, chan) ==
  IF chan = "open"
    THEN /\ queues' = [queues EXCEPT ![scheduled[t].queue] =
                         Append(@, NewMessage(JSONstringify(EventOf(scheduled[t])),
                                              Headers(publishing[t].correlationId)))]
         /\ sent' = Append(sent, NewMessage(JSONstringify(EventOf(scheduled[t])),
                                            Headers(publishing[t].correlationId)))
         /\ Settle(t, "sent")
    ELSE /\ Settle(t, "send-failed")
         /\ UNCHANGED brokerVars

\* RabbitMQClient.publish from the return of ensureConnection to its next
\* await (assertQueue) or to its end
AfterEnsure(t, chan) ==
  IF chan = NULL
    THEN /\ Settle(t, "no-channel")
         /\ UNCHANGED brokerVars
    ELSE IF scheduled[t].queue \notin assertedQueues
           THEN /\ publishing' = [publishing EXCEPT ![t].pc = "assert"]
                /\ UNCHANGED brokerVars
           ELSE SendToQueue(t, chan)

\* connect(): one pass of the retry loop, amqp.connect then createChannel
Connect(t) ==
  /\ t \in Tasks
  /\ publishing[t].pc = "connect"
  /\ \E outcome \in {"connected", "connect-error", "channel-error"} :
       IF outcome = "connected"
         THEN /\ connection' = "open"
              /\ channel' = "open"
              /\ isConnecting' = FALSE
              /\ attempt' = 0
              /\ delay' = 0
              /\ assertedOnChannel' = {}
              /\ UNCHANGED <<assertedQueues, lingering>>
              /\ AfterEnsure(t, "open")
         ELSE /\ connection' = IF outcome = "channel-error" THEN "open" ELSE connection
              /\ UNCHANGED <<channel, assertedQueues, brokerVars, lingering, assertedOnChannel>>
              /\ IF attempt < maxRetries
                   THEN /\ publishing' = [publishing EXCEPT ![t].pc = "backoff"]
                        /\ UNCHANGED <<isConnecting, attempt, delay>>
                   ELSE /\ isConnecting' = FALSE
                        /\ attempt' = 0
                        /\ delay' = 0
                        /\ Settle(t, "connect-failed")
  /\ UNCHANGED <<bookingVars, entityVars, workerVars>>

Min(a, b) == IF a <= b THEN a ELSE b

\* mutant: the delay grows by the initial delay each time
NextDelayLinear(d) == Min(d + initialDelayMs, maxDelayMs)

\* connect(): delay = Math.min(delay * backoffMultiplier, maxDelayMs)
NextDelay(d) == Min(d * backoffMultiplier, maxDelayMs)

\* connect(): `await this.sleep(delay)` is over, the delay is raised and the
\* loop goes to its next attempt
Backoff(t) ==
  /\ t \in Tasks
  /\ publishing[t].pc = "backoff"
  /\ attempt' = attempt + 1
  /\ delay' = NextDelay(delay)
  /\ publishing' = [publishing EXCEPT ![t].pc = "connect"]
  /\ UNCHANGED <<connection, channel, isConnecting, assertedQueues, lingering,
                 assertedOnChannel>>
  /\ UNCHANGED <<bookingVars, entityVars, brokerVars, workerVars>>

\* waitForConnection(): the polling loop ends, because the connecting call
\* is over or because the timeout has run out
\* mutant: a waiting call is handed the error of the connecting call
WaitErrorOfConnect == "connect-failed"

\* the error waitForConnection throws when its loop ends and the client is
\* not connected: Error('[RabbitMQ] Connection timeout')
WaitError == "wait-timeout"

WaitForConnection(t) ==
  /\ t \in Tasks
  /\ publishing[t].pc = "wait"
  /\ IF ~isConnecting /\ isConnected
       THEN AfterEnsure(t, channel)
       ELSE /\ Settle(t, WaitError)
            /\ UNCHANGED brokerVars
  /\ UNCHANGED clientVars
  /\ UNCHANGED <<bookingVars, entityVars, workerVars>>

\* publish resumes after `await this.ensureConnection()` found the client
\* connected
Ensured(t) ==
  /\ t \in Tasks
  /\ publishing[t].pc = "ensured"
  /\ AfterEnsure(t, channel)
  /\ UNCHANGED clientVars
  /\ UNCHANGED <<bookingVars, entityVars, workerVars>>

\* the reply to channel.assertQueue arrives; on success the queue is
\* remembered and the message is sent at once; a channel error closes the
\* channel, and the client only logs it
AssertQueue(t) ==
  /\ t \in Tasks
  /\ publishing[t].pc \in {"assert", "assertlost", "assertdetached"}
  /\ \A u \in Tasks : publishing[u].pc # "ensured"
  /\ IF publishing[t].pc = "assert" /\ channel = "open"
       THEN \/ /\ assertedQueues' = assertedQueues \cup {scheduled[t].queue}
               /\ assertedOnChannel' = assertedOnChannel \cup {scheduled[t].queue}
               /\ UNCHANGED <<connection, channel, isConnecting, attempt, delay, lingering>>
               /\ SendToQueue(t, channel)
            \/ /\ channel' = "closed"
               /\ assertedOnChannel' = {}
               /\ UNCHANGED <<connection, isConnecting, assertedQueues, attempt, delay,
                              lingering>>
               /\ Settle(t, "assert-failed")
               /\ UNCHANGED brokerVars
       ELSE IF publishing[t].pc = "assertdetached"
         THEN /\ assertedQueues' = assertedQueues \cup {scheduled[t].queue}
              /\ UNCHANGED <<connection, channel, isConnecting, attempt, delay, lingering,
                             assertedOnChannel>>
              /\ SendToQueue(t, channel)
       ELSE /\ Settle(t, "assert-failed")
            /\ UNCHANGED <<clientVars, brokerVars>>
  /\ UNCHANGED <<bookingVars, entityVars, workerVars>>

\* mutant: handleDisconnect forgets the connection and the channel only
handleDisconnectKeepQueues(asserted) == asserted

\* handleDisconnect: this.assertedQueues.clear()
handleDisconnectQueues(asserted) == {}

\* the connection emits 'error' or 'close': handleDisconnect(); replies still
\* awaited on the lost channel will be rejections. The handlers exist only
\* on a connection whose channel was created, and run between two turns of
\* the event loop, never before a resumed publish has gone on
Disconnect ==
  /\ connection # NULL
  /\ channel # NULL
  /\ \A t \in Tasks : publishing[t].pc # "ensured"
  /\ connection' = NULL
  /\ channel' = NULL
  /\ assertedQueues' = handleDisconnectQueues(assertedQueues)
  /\ assertedOnChannel' = {}
  /\ publishing' = [t \in Tasks |->
                      IF publishing[t].pc = "assert"
                        THEN [publishing[t] EXCEPT !.pc = "assertlost"]
                        ELSE publishing[t]]
  /\ UNCHANGED <<isConnecting, attempt, delay, lingering>>
  /\ UNCHANGED <<bookingVars, entityVars, brokerVars, workerVars>>

\* the channel emits 'error' and is closed; the client's handler only logs,
\* so this.channel keeps the closed channel
ChannelError ==
  /\ channel = "open"
  /\ \A t \in Tasks : publishing[t].pc # "ensured"
  /\ channel' = "closed"
  /\ assertedOnChannel' = {}
  /\ UNCHANGED <<connection, isConnecting, assertedQueues, attempt, delay, lingering,
                 publishing>>
  /\ UNCHANGED <<bookingVars, entityVars, brokerVars, workerVars>>

\* ---------------------------------------------------------------------
\* The transport client by itself: callers hand events to the publisher,
\* the connection comes and goes.
MaxPublishes == 3

\* the events BookingService hands over: a SeatLockedEvent for the
\* notification queue, a SeatSoldEvent for the ticket generation queue
PublishedEvents ==
  {SeatLockedEvent(lock(SeatCreate("s1", "evt-1"), "u1"), "u1"),
   SeatSoldEvent(sell(lock(SeatCreate("s1", "evt-1"), "u1")), "u1")}

\* this.eventPublisher.publish(queue, event), not awaited by its caller
Publish(event) ==
  /\ Len(scheduled) < MaxPublishes
  /\ scheduled' = Append(scheduled, event)
  /\ PublishCall(undefined, undefined, <<event>>)
  /\ UNCHANGED <<db, cache, pc, op, argSeat, argUser, cur, src, nxt, result, nops,
                 commits, okCalls, saved, begun, floor, argVersion, argEvent, xCorrelationId, raised,
                 ttl, redisUp>>
  /\ UNCHANGED <<entityVars, brokerVars, workerVars>>

NextClient ==
  \/ \E event \in PublishedEvents : Publish(event)
  \/ \E t \in Tasks : Connect(t)
  \/ \E t \in Tasks : Backoff(t)
  \/ \E t \in Tasks : WaitForConnection(t)
  \/ \E t \in Tasks : Ensured(t)
  \/ \E t \in Tasks : AssertQueue(t)
  \/ Disconnect
  \/ ChannelError

SpecClient == Init /\ [][NextClient]_vars

\* amqp.connect and createChannel settle one way or the other, and the
\* timer of sleep(delay) fires
SpecClientFair ==
  /\ SpecClient
  /\ WF_vars(\E t \in Tasks : Connect(t))
  /\ WF_vars(\E t \in Tasks : Backoff(t))

\* the connection's 'error' handler runs, handleDisconnect(), while the
\* 'close' event of the same connection is still to come
ConnectionError ==
  /\ connection # NULL
  /\ channel # NULL
  /\ \A t \in Tasks : publishing[t].pc # "ensured"
  /\ connection' = NULL
  /\ channel' = NULL
  /\ assertedQueues' = handleDisconnectQueues(assertedQueues)
  /\ assertedOnChannel' = {}
  /\ lingering' = lingering + 1
  /\ publishing' = [t \in Tasks |->
                      IF publishing[t].pc = "assert"
                        THEN [publishing[t] EXCEPT !.pc = "assertlost"]
                        ELSE publishing[t]]
  /\ UNCHANGED <<isConnecting, attempt, delay>>
  /\ UNCHANGED <<bookingVars, entityVars, brokerVars, workerVars>>

\* a replaced connection emits its 'close': the handler registered on it
\* runs handleDisconnect() on the client's fields as they are now. The
\* connection those fields referred to stays open at the broker, and a
\* reply awaited on its channel still arrives
LateClose ==
  /\ lingering > 0
  /\ \A t \in Tasks : publishing[t].pc # "ensured"
  /\ lingering' = lingering - 1
  /\ connection' = NULL
  /\ channel' = NULL
  /\ assertedQueues' = handleDisconnectQueues(assertedQueues)
  /\ assertedOnChannel' = {}
  /\ publishing' = [t \in Tasks |->
                      IF publishing[t].pc = "assert" /\ channel = "open"
                        THEN [publishing[t] EXCEPT !.pc = "assertdetached"]
                        ELSE publishing[t]]
  /\ UNCHANGED <<isConnecting, attempt, delay>>
  /\ UNCHANGED <<bookingVars, entityVars, brokerVars, workerVars>>

NextLate ==
  \/ \E event \in PublishedEvents : Publish(event)
  \/ \E t \in Tasks : Connect(t)
  \/ \E t \in Tasks : Backoff(t)
  \/ \E t \in Tasks : WaitForConnection(t)
  \/ \E t \in Tasks : Ensured(t)
  \/ \E t \in Tasks : AssertQueue(t)
  \/ Disconnect
  \/ ChannelError
  \/ ConnectionError
  \/ LateClose

SpecLate == Init /\ [][NextLate]_vars

\* ---------------------------------------------------------------------
\* The worker: channel.consume(TICKET_GENERATION_QUEUE, callback, {noAck: false})
MaxMsgs == 3

\* mutant: the message is dropped
NackDiscard(queue, msg) == queue

\* channel.nack(msg, false, true): the broker puts the message back at the
\* front of its queue, marked redelivered
NackRequeue(queue, msg) == <<[msg EXCEPT !.redelivered = TRUE]>> \o queue

\* messageContent.correlationId of a parsed body
BodyCorrelationId(content) ==
  IF "correlationId" \in DOMAIN content.value THEN content.value.correlationId
  ELSE undefined

\* mutant: the body's correlationId is preferred to the header
CorrelationIdBodyFirst(msg) ==
  IF BodyCorrelationId(msg.content) # undefined THEN BodyCorrelationId(msg.content)
  ELSE IF msg.headers.xCorrelationId # undefined THEN msg.headers.xCorrelationId
  ELSE uuidv4("worker", msg.id)

\* correlationIdFromHeader ?? messageContent.correlationId ?? uuidv4()
CorrelationIdOf(msg) ==
  IF msg.headers.xCorrelationId # undefined THEN msg.headers.xCorrelationId
  ELSE IF BodyCorrelationId(msg.content) # undefined THEN BodyCorrelationId(msg.content)
  ELSE uuidv4("worker", msg.id)

\* the `finally` of the callback: currentCorrelationId = 'idle'
idle == [id |-> "idle"]

\* the broker hands the next message to the callback, which runs to its
\* first await: JSON.parse, the correlation id, then processSeatSoldEvent up
\* to generatePDF's timer; a throw of JSON.parse goes to the catch block and
\* on to `finally`
Deliver ==
  /\ worker.state = "running"
  /\ queues[TICKET_GENERATION_QUEUE] # <<>>
  /\ Cardinality(inflight) < prefetchCount
  /\ LET msg == Head(queues[TICKET_GENERATION_QUEUE])
         rest == Tail(queues[TICKET_GENERATION_QUEUE]) IN
       /\ consumed' = consumed \cup {msg.id}
       /\ redeliveries' = IF msg.redelivered THEN redeliveries \cup {msg.id}
                          ELSE redeliveries
       /\ IF JSONparses(msg.content)
            THEN /\ inflight' = inflight \cup
                      {[msg |-> msg, pc |-> "generatePDF", done |-> <<>>]}
                 /\ queues' = [queues EXCEPT ![TICKET_GENERATION_QUEUE] = rest]
                 /\ currentCorrelationId' = CorrelationIdOf(msg)
            ELSE /\ queues' = [queues EXCEPT ![TICKET_GENERATION_QUEUE] =
                                 NackRequeue(rest, msg)]
                 /\ currentCorrelationId' = idle
                 /\ UNCHANGED inflight
  /\ UNCHANGED <<acked, sent, worker>>
  /\ UNCHANGED <<bookingVars, entityVars, clientVars, publishing>>

\* generatePDF resolves; sendEmailNotification starts
GeneratePDFDone(d) ==
  /\ d \in inflight
  /\ d.pc = "generatePDF"
  /\ worker.state # "exited"
  /\ inflight' = (inflight \ {d}) \cup
       {[d EXCEPT !.pc = "sendEmailNotification", !.done = Append(@, "generatePDF")]}
  /\ UNCHANGED <<acked, consumed, redeliveries, brokerVars, worker, currentCorrelationId>>
  /\ UNCHANGED <<bookingVars, entityVars, clientVars, publishing>>

\* sendEmailNotification resolves; channel.ack(msg)
SendEmailDone(d) ==
  /\ d \in inflight
  /\ d.pc = "sendEmailNotification"
  /\ worker.state = "running"
  /\ inflight' = inflight \ {d}
  /\ acked' = acked \cup {[id |-> d.msg.id,
                           done |-> Append(d.done, "sendEmailNotification")]}
  /\ currentCorrelationId' = idle
  /\ UNCHANGED <<consumed, redeliveries, brokerVars, worker>>
  /\ UNCHANGED <<bookingVars, entityVars, clientVars, publishing>>

\* the task being awaited throws: catch block, channel.nack(msg, false, true)
ProcessingFail(d) ==
  /\ d \in inflight
  /\ d.pc \in {"generatePDF", "sendEmailNotification"}
  /\ worker.state = "running"
  /\ inflight' = inflight \ {d}
  /\ queues' = [queues EXCEPT ![TICKET_GENERATION_QUEUE] = NackRequeue(@, d.msg)]
  /\ currentCorrelationId' = idle
  /\ UNCHANGED <<acked, consumed, redeliveries, sent, worker>>
  /\ UNCHANGED <<bookingVars, entityVars, clientVars, publishing>>

\* some producer's message reaches the worker's queue
Enqueue(content, headers) ==
  /\ Len(sent) < MaxMsgs
  /\ queues' = [queues EXCEPT ![TICKET_GENERATION_QUEUE] =
                  Append(@, NewMessage(content, headers))]
  /\ sent' = Append(sent, NewMessage(content, headers))
  /\ UNCHANGED workerVars
  /\ UNCHANGED <<bookingVars, entityVars, clientVars, publishing>>

\* the texts a producer may send: a SeatSoldEvent, or something unparsable
Contents ==
  {JSONstringify(EventOf(SeatSoldEvent(sell(lock(SeatCreate("s1", "evt-1"), u)), u))) :
     u \in Users} \cup {NotJSON}

NextWorker ==
  \/ \E content \in Contents : Enqueue(content, Headers(undefined))
  \/ Deliver
  \/ \E d \in inflight : GeneratePDFDone(d)
  \/ \E d \in inflight : SendEmailDone(d)
  \/ \E d \in inflight : ProcessingFail(d)

SpecWorker == Init /\ [][NextWorker]_vars

\* ---------------------------------------------------------------------
\* Shutdown of the worker: process.on('SIGINT' / 'SIGTERM') run the same
\* three lines, `await channel.close(); await connection.close();
\* process.exit(0)`.
\* the signal arrives: the handler logs and calls channel.close(), which
\* puts the channel into its closing state at once; from here on the
\* library drops incoming deliveries and every send on the channel throws
Signal ==
  /\ worker.state = "running"
  /\ worker' = [worker EXCEPT !.state = "closing"]
  /\ UNCHANGED <<inflight, acked, consumed, redeliveries, brokerVars, currentCorrelationId>>
  /\ UNCHANGED <<bookingVars, entityVars, clientVars, publishing>>

\* a callback reaches channel.ack(msg) (or, after a failed task, channel.nack)
\* on the closing channel: the call throws, the nack in the catch block
\* throws as well, and the delivery stays unacknowledged
AckOnClosingChannel(d) ==
  /\ d \in inflight
  /\ d.pc \in {"generatePDF", "sendEmailNotification"}
  /\ worker.state = "closing"
  /\ inflight' = (inflight \ {d}) \cup {[d EXCEPT !.pc = "threw"]}
  /\ currentCorrelationId' = idle
  /\ UNCHANGED <<acked, consumed, redeliveries, brokerVars, worker>>
  /\ UNCHANGED <<bookingVars, entityVars, clientVars, publishing>>

\* the broker returns every unacknowledged delivery of a closed channel to
\* the queue, marked redelivered
RECURSIVE RequeueAll(_, _)
RequeueAll(queue, deliveries) ==
  IF deliveries = {} THEN queue
  ELSE LET d == CHOOSE x \in deliveries : TRUE IN
         RequeueAll(NackRequeue(queue, d.msg), deliveries \ {d})

\* channel.close() resolves: the broker has closed the channel under the
\* callbacks still running; the handler goes on to connection.close()
ChannelClosed ==
  /\ worker.state = "closing"
  /\ queues' = [queues EXCEPT ![TICKET_GENERATION_QUEUE] = RequeueAll(@, inflight)]
  /\ worker' = [state |-> "closed",
                interrupted |-> {d.msg.id : d \in inflight}]
  /\ inflight' = {}
  /\ UNCHANGED <<acked, consumed, redeliveries, sent, currentCorrelationId>>
  /\ UNCHANGED <<bookingVars, entityVars, clientVars, publishing>>

\* connection.close() resolves and process.exit(0) ends the process
Exit ==
  /\ worker.state = "closed"
  /\ worker' = [worker EXCEPT !.state = "exited"]
  /\ UNCHANGED <<inflight, acked, consumed, redeliveries, brokerVars, currentCorrelationId>>
  /\ UNCHANGED <<bookingVars, entityVars, clientVars, publishing>>

NextShutdown ==
  \/ \E content \in Contents : Enqueue(content, Headers(undefined))
  \/ Deliver
  \/ \E d \in inflight : GeneratePDFDone(d)
  \/ \E d \in inflight : SendEmailDone(d)
  \/ \E d \in inflight : ProcessingFail(d)
  \/ Signal
  \/ \E d \in inflight : AckOnClosingChannel(d)
  \/ ChannelClosed
  \/ Exit

SpecShutdown == Init /\ [][NextShutdown]_vars

\* the broker delivers whenever the consumer has room, and the two timers
\* of the simulated tasks fire
SpecWorkerFair ==
  /\ SpecWorker
  /\ WF_vars(Deliver)
  /\ WF_vars(\E d \in inflight : GeneratePDFDone(d))
  /\ WF_vars(\E d \in inflight : SendEmailDone(d))

\* ---------------------------------------------------------------------
\* The whole pipeline for one client: requests one after another on the
\* seeded seat, their publish calls, and the worker. The worker's two tasks
\* are timers and the messages are the service's own, so no run fails.
NextPipeline ==
  \/ \E o \in Ops : Begin("p1", o, "s1", "u1")
  \/ \E p \in Procs : CacheGet(p)
  \/ \E p \in Procs : DbRead(p)
  \/ \E p \in Procs : CacheSet(p)
  \/ \E s \in SeatIds : CacheExpire(s)
  \/ \E p \in Procs : LockSeatCheck(p)
  \/ \E p \in Procs : ReleaseSeatCheck(p)
  \/ \E p \in Procs : ConfirmSaleCheck(p)
  \/ \E p \in Procs : StoreSave(p)
  \/ \E p \in Procs : CacheDeleteSeat(p)
  \/ \E p \in Procs : CacheDeleteEventAndReturn(p)
  \/ \E t \in Tasks : Connect(t)
  \/ \E t \in Tasks : Backoff(t)
  \/ \E t \in Tasks : WaitForConnection(t)
  \/ \E t \in Tasks : Ensured(t)
  \/ \E t \in Tasks : AssertQueue(t)
  \/ Disconnect
  \/ ChannelError
  \/ Deliver
  \/ \E d \in inflight : GeneratePDFDone(d)
  \/ \E d \in inflight : SendEmailDone(d)

SpecPipeline == Init /\ [][NextPipeline]_vars

\* every promise of the publishing side settles (connects and asserts end
\* one way or the other, timers fire), the broker delivers, the worker's
\* timers fire; requests and disconnects are under no obligation
SpecPipelineFair ==
  /\ SpecPipeline
  /\ WF_vars(\E t \in Tasks : Connect(t))
  /\ WF_vars(\E t \in Tasks : Backoff(t))
  /\ WF_vars(\E t \in Tasks : WaitForConnection(t))
  /\ WF_vars(\E t \in Tasks : Ensured(t))
  /\ WF_vars(\E t \in Tasks : AssertQueue(t))
  /\ WF_vars(Deliver)
  /\ WF_vars(\E d \in inflight : GeneratePDFDone(d))
  /\ WF_vars(\E d \in inflight : SendEmailDone(d))

\* ---------------------------------------------------------------------
\* Correlation ids at the worker: producers put any combination of header
\* and body id on their messages.
WithCorrelationId(event, c) ==
  [f \in DOMAIN event \cup {"correlationId"} |->
     IF f = "correlationId" THEN c ELSE event[f]]

TracedContents ==
  LET sold == EventOf(SeatSoldEvent(sell(lock(SeatCreate("s1", "evt-1"), "u1")), "u1")) IN
    {JSONstringify(sold), JSONstringify(WithCorrelationId(sold, [id |-> "c2"])), NotJSON}

NextCorrelation ==
  \/ \E content \in TracedContents, c \in CorrelationIds \cup {undefined} :
       Enqueue(content, Headers(c))
  \/ Deliver
  \/ \E d \in inflight : GeneratePDFDone(d)
  \/ \E d \in inflight : SendEmailDone(d)
  \/ \E d \in inflight : ProcessingFail(d)

SpecCorrelation == Init /\ [][NextCorrelation]_vars

\* ---------------------------------------------------------------------
\* Tracing a request: API requests with or without an X-Correlation-ID on
\* the seeded seat, their publish calls, and the worker.
NextTrace ==
  \/ \E o \in Ops, c \in CorrelationIds \cup {undefined} :
       BeginRequest("p1", o, "s1", "u1", c)
  \/ \E p \in Procs : CacheGet(p)
  \/ \E p \in Procs : DbRead(p)
  \/ \E p \in Procs : CacheSet(p)
  \/ \E p \in Procs : LockSeatCheck(p)
  \/ \E p \in Procs : ReleaseSeatCheck(p)
  \/ \E p \in Procs : ConfirmSaleCheck(p)
  \/ \E p \in Procs : StoreSave(p)
  \/ \E p \in Procs : CacheDeleteSeat(p)
  \/ \E p \in Procs : CacheDeleteEventAndReturn(p)
  \/ \E t \in Tasks : Connect(t)
  \/ \E t \in Tasks : Backoff(t)
  \/ \E t \in Tasks : Ensured(t)
  \/ \E t \in Tasks : AssertQueue(t)
  \/ Deliver
  \/ \E d \in inflight : GeneratePDFDone(d)
  \/ \E d \in inflight : SendEmailDone(d)

SpecTrace == Init /\ [][NextTrace]_vars

\* =====================================================================
\* Properties
\* =====================================================================
Busy(p) == pc[p] \notin {"idle", "done"}

Finished(p, o) == pc[p] = "done" /\ op[p] = o

\* p's repository.save has written and its cached save has not yet returned
Written(p) == pc[p] \in {"delseat", "delevent"}

Failures == {"NotFound", "NotAvailable", "Unauthorized", "ConcurrencyConflict"}

\* p leaves the position `at` in this step
Moved(p, at) == pc[p] = at /\ pc'[p] # at

\* C1: for every seat, at most one confirmSale call ever returns a sold
\* record, whatever lockSeat / releaseSeat / confirmSale calls interleave.
C1_SoldAtMostOnce ==
  \A s \in SeatIds :
    /\ okCalls[s]["confirmSale"] <= 1
    /\ Cardinality({p \in Procs : Finished(p, "confirmSale") /\ argSeat[p] = s
                                  /\ result[p].outcome = "ok"}) <= 1

\* a second confirmSale for a seat already sold once has been turned away
C1_Witness ==
  /\ okCalls["s1"]["confirmSale"] = 1
  /\ \E p \in Procs : /\ Finished(p, "confirmSale")
                      /\ argSeat[p] = "s1"
                      /\ result[p].outcome = "ConcurrencyConflict"

\* C2: of two concurrent lockSeat calls on the AVAILABLE seat at version 1,
\* once both have returned exactly one succeeded and persisted version 2 with
\* its user as holder; the other failed with ConcurrencyConflict, or with
\* NotAvailable(LOCKED), which it can only get by reading the winner's write.
C2_RaceOutcome ==
  /\ \A p \in Procs :
       (cur[p] # NoSeat /\ cur[p].status # AVAILABLE) => commits["s1"] = <<2>>
  /\ (\A p \in Procs : pc[p] = "done") =>
       \E w \in Procs :
         /\ result[w] = Ok(lock(SeatCreate("s1", "evt-1"), argUser[w]))
         /\ db["s1"] = toJSON(result[w].seat)
         /\ commits["s1"] = <<2>>
         /\ \A l \in Procs \ {w} :
              \/ result[l] = Fail("ConcurrencyConflict", NULL)
              \/ result[l] = Fail("NotAvailable", LOCKED)

\* both calls of the race have returned, the loser on a version conflict
C2_Witness ==
  /\ \A p \in Procs : pc[p] = "done"
  /\ \E l \in Procs : result[l].outcome = "ConcurrencyConflict"

\* the loser read after the winner's write and was told NotAvailable
C2_WitnessNotAvailable ==
  /\ \A p \in Procs : pc[p] = "done"
  /\ \E l \in Procs : result[l].outcome = "NotAvailable"

\* C3: no two successful store saves of a seat carry the same version (so of
\* the saves that expect the same previous version at most one succeeds), and
\* a save that does not match fails at once with ConcurrencyConflict, in the
\* one step it takes, leaving the table as it was.
C3_NoDuplicateCommit ==
  \A s \in SeatIds :
    /\ \A i, j \in 1..Len(commits[s]) : commits[s][i] = commits[s][j] => i = j
    /\ \A p, q \in Procs :
         (p # q /\ Written(p) /\ Written(q) /\ nxt[p].id = s /\ nxt[q].id = s)
           => nxt[p].version # nxt[q].version

C3_FailFast ==
  \A p \in Procs :
    (pc[p] = "save" /\ pc'[p] # "save") =>
      \/ /\ pc'[p] = "delseat"
         /\ db[nxt[p].id].version = nxt[p].version - 1
         /\ db'[nxt[p].id].version = nxt[p].version
      \/ /\ pc'[p] = "done"
         /\ result'[p] = Fail("ConcurrencyConflict", NULL)
         /\ db[nxt[p].id].version # nxt[p].version - 1
         /\ db' = db

\* C3: same-version store saves: at most one commits, the others fail fast
\* with ConcurrencyConflict and change nothing (both parts above).
C3_SameVersionSaves == []C3_NoDuplicateCommit /\ [][C3_FailFast]_vars

\* one save of a version has been written while another call that went for
\* the same seat got ConcurrencyConflict
C3_Witness ==
  \E p, q \in Procs :
    /\ p # q
    /\ Written(p)
    /\ pc[q] = "done"
    /\ argSeat[q] = nxt[p].id
    /\ result[q].outcome = "ConcurrencyConflict"

\* C4: a findById that begins after a successful cached save() of the seat
\* has returned is never served an older version of the seat from the cache.
C4_NoStaleHit ==
  \A p \in Procs :
    (pc[p] = "check" /\ src[p] = "cache") => cur[p].version >= floor[p]

\* C5: every change of a persisted row's status is AVAILABLE -> LOCKED,
\* LOCKED -> SOLD or LOCKED -> AVAILABLE, and a SOLD row never changes.
AllowedTransitions ==
  {<<AVAILABLE, LOCKED>>, <<LOCKED, SOLD>>, <<LOCKED, AVAILABLE>>}

C5_Step ==
  \A s \in SeatIds :
    db'[s] # db[s] =>
      /\ db[s] # NoSeat
      /\ db'[s] # NoSeat
      /\ <<db[s].status, db'[s].status>> \in AllowedTransitions

\* C5: every step of every behaviour changes persisted status only along an
\* allowed transition; SOLD rows are final.
C5_Transitions == [][C5_Step]_vars

\* the seat is SOLD and a later call on it has come back empty-handed
C5_Witness ==
  /\ db["s1"].status = SOLD
  /\ \E p \in Procs : /\ pc[p] = "done"
                      /\ argSeat[p] = "s1"
                      /\ begun[p] # NoSeat
                      /\ begun[p].status = SOLD
                      /\ result[p].outcome \in Failures

\* C6: the persisted version is the seeded version 1 plus one for every call
\* that succeeded (counting the calls whose write is done and whose return is
\* pending); a step changes it by exactly +1 or not at all, and the step in
\* which a call fails leaves the table unchanged.
OkCount(s) == okCalls[s]["lockSeat"] + okCalls[s]["releaseSeat"] + okCalls[s]["confirmSale"]

C6_VersionCount ==
  \A s \in SeededSeats :
    db[s].version = 1 + OkCount(s) + Cardinality({p \in Procs : Written(p) /\ nxt[p].id = s})

C6_Step ==
  /\ \A s \in SeededSeats :
       \/ db'[s] = db[s]
       \/ db'[s].version = db[s].version + 1
  /\ \A p \in Procs :
       (pc[p] # "done" /\ pc'[p] = "done" /\ result'[p].outcome # "ok") =>
         /\ result'[p].outcome \in Failures
         /\ db' = db

\* C6: version = 1 + successful calls, always; steps add exactly 1 or
\* nothing, and failing calls leave the table alone.
C6_Version == []C6_VersionCount /\ [][C6_Step]_vars

\* three calls have succeeded on the seat and one has failed
C6_Witness ==
  /\ db["s1"].version = 4
  /\ OkCount("s1") = 3
  /\ \E p \in Procs : pc[p] = "done" /\ result[p].outcome \in Failures

\* C7 as stated: a persisted row has a holder exactly when it is LOCKED.
C7_HolderIffLocked ==
  \A s \in SeatIds :
    db[s] # NoSeat => (db[s].userId # NULL <=> db[s].status = LOCKED)

\* C7 as amended: a persisted row has a holder exactly when it is LOCKED or
\* SOLD (the buyer is kept on the sold row); it has none when AVAILABLE.
C7_HolderIffLockedOrSold ==
  \A s \in SeatIds :
    db[s] # NoSeat => (db[s].userId # NULL <=> db[s].status \in {LOCKED, SOLD})

\* the seat was locked, released again, locked and sold: all statuses seen
C7_Witness ==
  /\ db["s1"].status = SOLD
  /\ db["s1"].userId \in Users
  /\ okCalls["s1"]["releaseSeat"] = 1

\* C8: the record confirmSale writes and returns is SOLD and keeps as holder
\* the calling user, who held the lock on the row it replaced; the record
\* releaseSeat writes and returns is AVAILABLE with no holder.
C8_Records ==
  \A p \in Procs :
    /\ (Written(p) /\ op[p] = "confirmSale") =>
         nxt[p].status = SOLD /\ nxt[p].userId = argUser[p]
    /\ (Written(p) /\ op[p] = "releaseSeat") =>
         nxt[p].status = AVAILABLE /\ nxt[p].userId = NULL
    /\ (Finished(p, "confirmSale") /\ result[p].outcome = "ok") =>
         result[p].seat.status = SOLD /\ result[p].seat.userId = argUser[p]
    /\ (Finished(p, "releaseSeat") /\ result[p].outcome = "ok") =>
         result[p].seat.status = AVAILABLE /\ result[p].seat.userId = NULL

C8_Persist ==
  \A p \in Procs :
    (pc[p] = "save" /\ pc'[p] = "delseat") =>
      /\ db'[argSeat[p]] = toJSON(nxt[p])
      /\ op[p] = "confirmSale" =>
           /\ db[argSeat[p]].status = LOCKED
           /\ db[argSeat[p]].userId = argUser[p]
           /\ db'[argSeat[p]].status = SOLD
           /\ db'[argSeat[p]].userId = argUser[p]
      /\ op[p] = "releaseSeat" =>
           /\ db'[argSeat[p]].status = AVAILABLE
           /\ db'[argSeat[p]].userId = NULL

\* C8: confirmSale writes and returns SOLD with the locking user kept as
\* holder; releaseSeat writes and returns AVAILABLE with the holder cleared.
C8_HolderKept == []C8_Records /\ [][C8_Persist]_vars

\* a confirmSale has returned its sold record after an earlier release
C8_Witness ==
  /\ okCalls["s1"]["releaseSeat"] = 1
  /\ \E p \in Procs : /\ Finished(p, "confirmSale")
                      /\ result[p].outcome = "ok"
                      /\ db["s1"] = toJSON(result[p].seat)

\* C9: a releaseSeat or confirmSale by a user while the persisted seat is
\* LOCKED by somebody else (from the start of the call to its end) fails
\* with Unauthorized.
C9_NonHolderUnauthorized ==
  \A p \in Procs :
    ( /\ pc[p] = "done"
      /\ op[p] \in {"releaseSeat", "confirmSale"}
      /\ begun[p] # NoSeat
      /\ begun[p].status = LOCKED
      /\ begun[p].userId # argUser[p]
      /\ db[argSeat[p]] = begun[p] )
    => result[p] = Fail("Unauthorized", NULL)

\* C10: when the seat lockSeat read is LOCKED or SOLD the call ends right
\* there with NotAvailable carrying that status: save is never called, the
\* table is unchanged and no event is handed to the publisher.
C10_Step ==
  \A p \in Procs :
    ( /\ pc[p] = "check"
      /\ op[p] = "lockSeat"
      /\ cur[p] # NoSeat
      /\ cur[p].status \in {LOCKED, SOLD}
      /\ pc'[p] # "check" )
    => /\ pc'[p] = "done"
       /\ result'[p] = Fail("NotAvailable", cur[p].status)
       /\ db' = db
       /\ commits' = commits
       /\ scheduled' = scheduled

\* C10: lockSeat on a seat read as LOCKED or SOLD fails with NotAvailable
\* (that status), without a store write or an event.
C10_LockNotAvailable == [][C10_Step]_vars

\* lockSeat calls have been refused on a LOCKED seat and on a SOLD seat
C10_Witness ==
  /\ \E p \in Procs : Finished(p, "lockSeat") /\ result[p] = Fail("NotAvailable", SOLD)
  /\ \E q \in Procs : Finished(q, "lockSeat") /\ result[q] = Fail("NotAvailable", LOCKED)

\* ---------------------------------------------------------------- C11
\* C11 (as stated): a finished call whose transition the persisted status
\* did not allow (lockSeat off AVAILABLE, releaseSeat or confirmSale off
\* LOCKED) has failed with NotAvailable carrying that status.
C11_AlwaysNotAvailable ==
  \A p \in Procs :
    ( /\ pc[p] = "done"
      /\ begun[p] # NoSeat
      /\ db[argSeat[p]] = begun[p]
      /\ \/ op[p] = "lockSeat" /\ begun[p].status # AVAILABLE
         \/ op[p] \in {"releaseSeat", "confirmSale"} /\ begun[p].status # LOCKED )
    => result[p] = Fail("NotAvailable", begun[p].status)

C11_Step ==
  \A p \in Procs :
    ( /\ pc[p] = "check"
      /\ cur[p] # NoSeat
      /\ pc'[p] # "check" )
    => /\ ( op[p] = "lockSeat" /\ cur[p].status # AVAILABLE )
            => /\ result'[p] = Fail("NotAvailable", cur[p].status)
               /\ pc'[p] = "done"
               /\ db' = db /\ cache' = cache /\ scheduled' = scheduled
       /\ ( /\ op[p] \in {"releaseSeat", "confirmSale"}
            /\ ~(cur[p].status = LOCKED /\ cur[p].userId = argUser[p]) )
            => /\ result'[p] = Fail("Unauthorized", NULL)
               /\ pc'[p] = "done"
               /\ db' = db /\ cache' = cache /\ scheduled' = scheduled

\* C11: a call refused on the seat it read writes nothing: lockSeat off
\* AVAILABLE fails with NotAvailable (the status read), releaseSeat and
\* confirmSale on a seat not LOCKED by the caller fail with Unauthorized.
C11_RefusedByKind == [][C11_Step]_vars

\* the buyer's second confirmSale on the seat SOLD to them came back Unauthorized
C11_Witness ==
  \E p \in Procs :
    /\ Finished(p, "confirmSale")
    /\ result[p] = Fail("Unauthorized", NULL)
    /\ begun[p] # NoSeat
    /\ begun[p].status = SOLD
    /\ begun[p].userId = argUser[p]
    /\ db[argSeat[p]] = begun[p]

\* ---------------------------------------------------------------- C12
C12_Absent ==
  \A s \in SeatIds \ SeededSeats :
    /\ db[s] = NoSeat
    /\ cache[SeatKey(s)] = NoSeat
    /\ \A i \in 1..Len(scheduled) : scheduled[i].seatId # s
    /\ \A p \in Procs :
         (pc[p] = "done" /\ argSeat[p] = s) => result[p] = Fail("NotFound", NULL)

C12_Step ==
  \A p \in Procs :
    ( /\ Busy(p)
      /\ argSeat[p] \notin SeededSeats
      /\ pc'[p] # pc[p] )
    => /\ db' = db /\ cache' = cache /\ scheduled' = scheduled /\ commits' = commits
       /\ pc[p] = "check" => /\ cur[p] = NoSeat
                             /\ pc'[p] = "done"
                             /\ result'[p] = Fail("NotFound", NULL)

\* C12: every method called with a seat id that neither the cache nor the
\* table holds fails with NotFound, and no step of such a call writes the
\* table or the cache or hands an event to the publisher.
C12_NotFound == []C12_Absent /\ [][C12_Step]_vars

\* a lockSeat and a releaseSeat/confirmSale on the absent seat both ended NotFound
C12_Witness ==
  \E p, q \in Procs :
    /\ p # q
    /\ Finished(p, "lockSeat") /\ argSeat[p] = "s2"
    /\ result[p] = Fail("NotFound", NULL)
    /\ pc[q] = "done" /\ op[q] \in {"releaseSeat", "confirmSale"} /\ argSeat[q] = "s2"
    /\ result[q] = Fail("NotFound", NULL)

\* ---------------------------------------------------------------- C13
C13_Step ==
  \A p \in Procs :
    op[p] = "lockSeat" =>
      /\ (pc[p] = "save" /\ pc'[p] = "delseat")
           => /\ db[argSeat[p]] = toJSON(cur[p])
              /\ cur[p].status = AVAILABLE
              /\ nxt[p] = [cur[p] EXCEPT !.status = LOCKED,
                                         !.userId = argUser[p],
                                         !.version = cur[p].version + 1]
              /\ db'[argSeat[p]] = toJSON(nxt[p])
      /\ (pc[p] = "delevent" /\ pc'[p] = "done")
           => /\ result'[p] = Ok(nxt[p])
              /\ nxt[p].status = LOCKED
              /\ nxt[p].userId = argUser[p]
              /\ nxt[p].version = cur[p].version + 1
              /\ \E i \in 1..Len(commits[argSeat[p]]) :
                   commits[argSeat[p]][i] = nxt[p].version

\* C13: a lockSeat that succeeds wrote over the AVAILABLE row it read, at
\* version v, the record {LOCKED, caller, v+1}, and returns that record.
C13_LockResult == [][C13_Step]_vars

\* lockSeat returned the version-2 LOCKED record and the table holds it
C13_Witness ==
  \E p \in Procs :
    /\ Finished(p, "lockSeat")
    /\ result[p].outcome = "ok"
    /\ result[p].seat.status = LOCKED
    /\ result[p].seat.userId = argUser[p]
    /\ result[p].seat.version = 2
    /\ db[argSeat[p]] = toJSON(result[p].seat)

\* ---------------------------------------------------------------- C17
EventsOf(s, type) ==
  Cardinality({i \in 1..Len(scheduled) :
                 scheduled[i].seatId = s /\ scheduled[i].eventType = type})

C17_Counts ==
  \A s \in SeatIds :
    /\ EventsOf(s, "SEAT_LOCKED") = okCalls[s]["lockSeat"]
    /\ EventsOf(s, "SEAT_SOLD") = okCalls[s]["confirmSale"]
    /\ Len(commits[s]) >= OkCount(s)

C17_Step ==
  /\ scheduled' # scheduled
       => \E p \in Procs :
            /\ pc[p] = "delevent" /\ pc'[p] = "done"
            /\ op[p] \in {"lockSeat", "confirmSale"}
            /\ result'[p] = Ok(nxt[p])
            /\ \E i \in 1..Len(commits[nxt[p].id]) : commits[nxt[p].id][i] = nxt[p].version
            /\ Len(scheduled') = Len(scheduled) + 1
            /\ scheduled'[Len(scheduled')].seatId = nxt[p].id
            /\ scheduled'[Len(scheduled')].eventType =
                 (IF op[p] = "lockSeat" THEN "SEAT_LOCKED" ELSE "SEAT_SOLD")
  /\ \A p \in Procs :
       ( /\ pc[p] # "done" /\ pc'[p] = "done"
         /\ (result'[p].outcome # "ok" \/ op[p] = "releaseSeat") )
       => scheduled' = scheduled

\* C17: an event is handed to the publisher only at the return of a lockSeat
\* or confirmSale whose write the table has accepted; a failing call and
\* releaseSeat hand over none.
C17_PublishAfterPersist == []C17_Counts /\ [][C17_Step]_vars

\* a lock and a re-lock were published, a release in between was not, and a
\* call has failed
C17_Witness ==
  /\ okCalls["s1"]["releaseSeat"] = 1
  /\ okCalls["s1"]["lockSeat"] = 2
  /\ Len(scheduled) = 2
  /\ \E p \in Procs : pc[p] = "done" /\ result[p].outcome \in Failures

\* ---------------------------------------------------------------- C14
\* every instance made by a transition still finds its receiver in the state
\* the transition started from
C14_ReceiverKept ==
  \A r \in References :
    heap[r].method # "create" =>
      LET old == heap[heap[r].receiver].props
          new == heap[r].props IN
        /\ heap[r].receiver # r
        /\ new.version = old.version + 1
        /\ new.id = old.id
        /\ heap[r].method = "lock"
             => old.status = AVAILABLE /\ old.userId = NULL /\ new.status = LOCKED
        /\ heap[r].method = "sell"
             => old.status = LOCKED /\ new.status = SOLD /\ new.userId = old.userId
        /\ heap[r].method = "release"
             => old.status = LOCKED /\ old.userId # NULL /\ new.status = AVAILABLE

C14_Step ==
  heap' # heap =>
    /\ Len(heap') = Len(heap) + 1
    /\ \A r \in References : heap'[r] = heap[r]

\* C14: lock, sell and release return a new instance and leave every
\* existing instance (the receiver included) with the status, holder and
\* version it had.
C14_Immutable == []C14_ReceiverKept /\ [][C14_Step]_vars

\* the created instance is still AVAILABLE at version 1 after a lock on it,
\* and the locked one is still LOCKED after both a sell and a release on it
C14_Witness ==
  /\ heap[1].props = SeatCreate("s1", "evt-1")
  /\ \E a, b, c \in References :
       /\ heap[a].method = "lock" /\ heap[a].receiver = 1
       /\ heap[b].method = "sell" /\ heap[b].receiver = a
       /\ heap[c].method = "release" /\ heap[c].receiver = a
       /\ heap[a].props.status = LOCKED

\* ---------------------------------------------------------------- C15
Settled(t) == publishing[t].pc \in {"resolved", "rejected"}

PublishFailures ==
  {"connect-failed", "no-channel", "assert-failed", "send-failed", "wait-timeout"}

C15_OnePublishPerEvent ==
  /\ Len(publishing) = Len(scheduled)
  /\ \A s \in SeatIds :
       /\ EventsOf(s, "SEAT_LOCKED") = okCalls[s]["lockSeat"]
       /\ EventsOf(s, "SEAT_SOLD") = okCalls[s]["confirmSale"]

C15_Step ==
  /\ \A p \in Procs :
       ( /\ pc[p] = "delevent" /\ pc'[p] = "done"
         /\ op[p] \in {"lockSeat", "confirmSale"} )
       => /\ result'[p] = Ok(nxt[p])
          /\ db' = db
          /\ Len(publishing') = Len(publishing) + 1
          /\ publishing'[Len(publishing')].pc \notin {"resolved", "rejected"}
          /\ \A t \in Tasks : publishing'[t] = publishing[t]
          /\ brokerVars' = brokerVars /\ workerVars' = workerVars
  /\ ( /\ scheduled' = scheduled
       /\ <<clientVars, publishing, brokerVars, workerVars>>' #
            <<clientVars, publishing, brokerVars, workerVars>> )
       => bookingVars' = bookingVars

\* C15: lockSeat and confirmSale return their record in the very step that
\* hands the event to publish, with that publish still pending, and no
\* later step of the publish or of the worker, whatever its outcome, touches
\* a result, the table or the cache.
C15_FireAndForget == []C15_OnePublishPerEvent /\ [][C15_Step]_vars

\* three calls have returned their records and the seat is SOLD, while one
\* publish went through, one failed and one is still pending
C15_Witness ==
  /\ \E p \in Procs :
       /\ Finished(p, "confirmSale")
       /\ result[p].outcome = "ok"
       /\ db[argSeat[p]] = toJSON(result[p].seat)
  /\ \E a, b, c \in Tasks :
       /\ publishing[a].cause = "sent"
       /\ publishing[b].cause \in PublishFailures
       /\ ~Settled(c)

\* ---------------------------------------------------------------- C16
\* C16: the promise of RabbitMQEventPublisher.publish is never rejected:
\* however client.publish ends (sent, or any of its throws), it resolves.
C16_NeverRejects ==
  \A t \in Tasks :
    /\ publishing[t].pc # "rejected"
    /\ publishing[t].cause # NULL => publishing[t].pc = "resolved"
    /\ publishing[t].cause = "sent" <=> publishing[t].msgId # 0

\* publishes have resolved after connect gave up, after the wait for the
\* connection ended without one, and after assertQueue or sendToQueue failed
C16_Witness ==
  \E a, b, c \in Tasks :
    /\ publishing[a].pc = "resolved" /\ publishing[a].cause = "connect-failed"
    /\ publishing[b].pc = "resolved" /\ publishing[b].cause = "wait-timeout"
    /\ publishing[c].pc = "resolved"
    /\ publishing[c].cause \in {"assert-failed", "send-failed"}

\* ---------------------------------------------------------------- C18
Consumed(t) == t \in Tasks /\ publishing[t].msgId \in consumed

\* C18 (as stated): every event the service creates is eventually handed to
\* the worker's callback.
C18_EveryEventConsumed ==
  \A t \in 1..MaxOps : (t \in Tasks) ~> Consumed(t)

C18_OnlySoldConsumed ==
  \A t \in Tasks :
    /\ Consumed(t) => scheduled[t].eventType = "SEAT_SOLD" /\ publishing[t].cause = "sent"
    /\ scheduled[t].eventType = "SEAT_LOCKED" => scheduled[t].queue # TICKET_GENERATION_QUEUE

C18_SentSoldConsumed ==
  \A t \in 1..MaxOps :
    ( /\ t \in Tasks
      /\ scheduled[t].eventType = "SEAT_SOLD"
      /\ publishing[t].cause = "sent" ) ~> Consumed(t)

\* C18: a SoldEvent whose publish reached the broker is eventually handed to
\* the worker's callback; nothing else is ever consumed (a LockedEvent goes
\* to the notification queue, a failed publish leaves no message).
C18_SoldEventuallyConsumed == []C18_OnlySoldConsumed /\ C18_SentSoldConsumed

\* the SoldEvent has been consumed while the LockedEvent of the same seat
\* sits in the notification queue
C18_Witness ==
  \E a, b \in Tasks :
    /\ scheduled[a].eventType = "SEAT_SOLD" /\ Consumed(a)
    /\ scheduled[b].eventType = "SEAT_LOCKED" /\ publishing[b].cause = "sent"
    /\ \E i \in 1..Len(queues[EVENT_QUEUES.NOTIFICATION]) :
         queues[EVENT_QUEUES.NOTIFICATION][i].id = publishing[b].msgId

\* ---------------------------------------------------------------- C19
Ready(id) ==
  \E q \in QueueNames : \E i \in 1..Len(queues[q]) : queues[q][i].id = id

InFlight(id) == \E d \in inflight : d.msg.id = id

Acked(id) == \E a \in acked : a.id = id

C19_NothingLost ==
  /\ \A a \in acked :
       /\ a.done = <<"generatePDF", "sendEmailNotification">>
       /\ JSONparses(sent[a.id].content)
  /\ \A id \in 1..Len(sent) :
       /\ Ready(id) \/ InFlight(id) \/ Acked(id)
       /\ ~(Ready(id) /\ InFlight(id))
       /\ ~(Ready(id) /\ Acked(id))
       /\ ~(InFlight(id) /\ Acked(id))

C19_Step ==
  /\ acked' # acked
       => \E d \in inflight :
            /\ d.pc = "sendEmailNotification"
            /\ d.done = <<"generatePDF">>
            /\ acked' = acked \cup {[id |-> d.msg.id, done |-> Append(d.done, d.pc)]}
            /\ inflight' = inflight \ {d}
  /\ \A d \in inflight :
       (~InFlight(d.msg.id)' /\ ~Acked(d.msg.id)')
         => /\ queues'[TICKET_GENERATION_QUEUE] # <<>>
            /\ Head(queues'[TICKET_GENERATION_QUEUE]) = [d.msg EXCEPT !.redelivered = TRUE]

C19_RequeuedRedelivered ==
  \A id \in 1..MaxMsgs :
    ( /\ id <= Len(sent)
      /\ \E i \in 1..Len(queues[TICKET_GENERATION_QUEUE]) :
           /\ queues[TICKET_GENERATION_QUEUE][i].id = id
           /\ queues[TICKET_GENERATION_QUEUE][i].redelivered )
    ~> (id \in redeliveries)

\* C19: a delivery is acked only at the end of a run in which generatePDF
\* and then sendEmailNotification completed; a run that fails puts the
\* message back at the front of the queue, from where it is delivered
\* again; every message is in the queue, in flight, or acked after a full
\* run.
C19_AckAfterSuccess ==
  /\ []C19_NothingLost
  /\ [][C19_Step]_vars
  /\ C19_RequeuedRedelivered

\* one message was acked on its second delivery and an unparsable one has
\* come back to the callback
C19_Witness ==
  /\ \E a \in acked : a.id \in redeliveries
  /\ \E id \in redeliveries : ~JSONparses(sent[id].content)

\* ---------------------------------------------------------------- C20
C20_AtMostOne == Cardinality(inflight) <= 1

C20_Step ==
  (\E d \in inflight' : d \notin inflight /\ d.pc = "generatePDF")
    => inflight = {}

\* C20: the worker never holds more than one unacknowledged delivery: the
\* callback starts on a message only when no delivery is in flight.
C20_OneInFlight == []C20_AtMostOne /\ [][C20_Step]_vars

\* a second message waits in the queue while the first is being processed,
\* after an earlier one has been acked
C20_Witness ==
  /\ Cardinality(inflight) = 1
  /\ queues[TICKET_GENERATION_QUEUE] # <<>>
  /\ acked # {}

\* C21: when a termination signal arrives while a message is being
\* processed, the worker closes its channel only after that message has been
\* acked or nacked, so no delivery is ever cut short by the shutdown.
C21_CloseAfterInFlight ==
  worker.state \in {"closed", "exited"} => worker.interrupted = {}

\* the other half of C21, which does hold: once the signal has arrived no
\* further message is handed to the callback
C21_NoDeliveryAfterSignal ==
  [][worker.state # "running" => consumed' = consumed]_vars

\* C30: a store save of a record with version > 1 updates the row only if a
\* row with that id and version = record.version - 1 exists; when none does
\* it throws ConcurrencyError("Seat", id, record.version - 1) and the table
\* stays as it was.
C30_Step ==
  \A p \in Procs :
    (pc[p] = "save" /\ pc'[p] # "save" /\ nxt[p].version > 1) =>
      LET id == nxt[p].id
          previousVersion == nxt[p].version - 1 IN
        IF db[id] # NoSeat /\ db[id].version = previousVersion
          THEN /\ db' = [db EXCEPT ![id] = [@ EXCEPT !.status = nxt[p].status,
                                                      !.userId = nxt[p].userId,
                                                      !.version = nxt[p].version]]
               /\ pc'[p] = "delseat"
               /\ raised'[p] = NoError
          ELSE /\ db' = db
               /\ pc'[p] = "done"
               /\ result'[p].outcome = "ConcurrencyConflict"
               /\ raised'[p] = [name |-> "ConcurrencyError", entityType |-> "Seat",
                                entityId |-> id, expectedVersion |-> previousVersion]

C30_ConflictOnVersionMismatch == [][C30_Step]_vars

\* a save failed with ConcurrencyError for a version the row has left behind
C30_Witness ==
  \E p \in Procs :
    /\ pc[p] = "done"
    /\ raised[p].name = "ConcurrencyError"
    /\ raised[p].entityType = "Seat"
    /\ raised[p].entityId = "s1"
    /\ db["s1"].version > raised[p].expectedVersion

\* C22: a caller that got ConcurrencyConflict and issues the whole operation
\* again while no other writer is active gets a definitive outcome, never
\* another ConcurrencyConflict. (In SpecRetry nops exceeds the two racing
\* calls only through such a retry, and the other call has finished.)
C22_RetryDefinitive ==
  \A p \in Procs :
    (nops > Cardinality(Procs) /\ pc[p] = "done") =>
      result[p].outcome # "ConcurrencyConflict"

\* C25: locks never expire by themselves: a persisted row that is LOCKED
\* with holder u changes only in the store write of a releaseSeat or
\* confirmSale called by u; the lock duration exists only as the expiry
\* carried by the LockedEvent, the row has no such field.
C25_Step ==
  \A s \in SeatIds :
    (db[s] # NoSeat /\ db[s].status = LOCKED /\ db'[s] # db[s]) =>
      \E p \in Procs :
        /\ pc[p] = "save" /\ pc'[p] = "delseat"
        /\ argSeat[p] = s
        /\ op[p] \in {"releaseSeat", "confirmSale"}
        /\ argUser[p] = db[s].userId

C25_DurationOnlyInEvent ==
  /\ \A s \in SeatIds :
       db[s] # NoSeat => DOMAIN db[s] = {"id", "eventId", "status", "userId", "version"}
  /\ \A i \in 1..Len(scheduled) :
       scheduled[i].eventType = "SEAT_LOCKED" =>
         scheduled[i].expiresAfterMinutes = 15

C25_NoLockExpiry == []C25_DurationOnlyInEvent /\ [][C25_Step]_vars

\* the seat is still LOCKED by u1 after every call of the run has finished,
\* the cached copy has expired, and u2 was refused in between
C25_Witness ==
  /\ db["s1"].status = LOCKED /\ db["s1"].userId = "u1"
  /\ cache[SeatKey("s1")] = NoSeat
  /\ nops = MaxOps
  /\ \A p \in Procs : pc[p] = "done"
  /\ \E p \in Procs : argUser[p] = "u2" /\ argSeat[p] = "s1"
                        /\ result[p].outcome \in {"NotAvailable", "Unauthorized"}
  /\ \E i \in 1..Len(scheduled) : scheduled[i].eventType = "SEAT_LOCKED"

\* C23: cache entries may vanish at any point, also between the steps of
\* concurrent calls, without effect on what is persisted: a step that drops
\* an entry changes the cache and nothing else; every change of a row is the
\* store write of a call whose record is exactly one version ahead of the
\* row, along an allowed transition; whether a store write succeeds depends
\* on the row's version alone; a seat is sold at most once and calls end in
\* one of the known outcomes.
C23_DropStep ==
  (\A p \in Procs : pc'[p] = pc[p]) =>
     UNCHANGED <<db, op, argSeat, argUser, cur, src, nxt, result, scheduled, nops,
                 commits, okCalls, saved, begun, floor, raised>>

C23_WriteStep ==
  \A s \in SeatIds :
    db'[s] # db[s] =>
      /\ db[s] # NoSeat
      /\ <<db[s].status, db'[s].status>> \in AllowedTransitions
      /\ db'[s].version = db[s].version + 1
      /\ \E p \in Procs : /\ pc[p] = "save" /\ pc'[p] = "delseat"
                            /\ nxt[p].id = s
                            /\ nxt[p].version = db[s].version + 1

C23_SaveStep ==
  \A p \in Procs :
    (pc[p] = "save" /\ pc'[p] # "save") =>
      (pc'[p] = "delseat" <=>
         (db[nxt[p].id] # NoSeat /\ db[nxt[p].id].version = nxt[p].version - 1))

C23_Outcomes ==
  /\ \A s \in SeatIds : okCalls[s]["confirmSale"] <= 1
  /\ \A p \in Procs : pc[p] = "done" => result[p].outcome \in {"ok"} \cup Failures

C23_CacheIndependent ==
  []C23_Outcomes /\ [][C23_DropStep /\ C23_WriteStep /\ C23_SaveStep]_vars

\* a call is about to write a record it took from the cache, the entry has
\* been dropped since (nothing was written yet, so no save removed it), and
\* another call is under way
C23_Witness ==
  \E p, q \in Procs :
    /\ p # q
    /\ pc[p] = "save" /\ src[p] = "cache"
    /\ cache[SeatKey(argSeat[p])] = NoSeat
    /\ commits[argSeat[p]] = <<>>
    /\ Busy(q)

\* C26: on a Seat instance, lock(holderId) fails unless the receiver is
\* AVAILABLE, and sell() and release() fail unless it is LOCKED; a failing
\* call throws and makes no new instance, a call that makes a new instance
\* had a receiver in the required status.
C26_Required(method) == IF method = "lock" THEN AVAILABLE ELSE LOCKED

C26_Step ==
  /\ thrown' # thrown =>
       /\ heap' = heap
       /\ thrown'.message[2] \in {"lock", "sell", "release"}
       /\ heap[thrown'.receiver].props.status # C26_Required(thrown'.message[2])
       /\ thrown'.message[4] = heap[thrown'.receiver].props.status
  /\ heap' # heap =>
       /\ thrown' = thrown
       /\ Len(heap') = Len(heap) + 1
       /\ LET made == heap'[Len(heap')] IN
            heap[made.receiver].props.status = C26_Required(made.method)

\* which of the two ways a call can go, by the receiver's status alone
C26_Enabled ==
  \A r \in References :
    LET status == heap[r].props.status
        room == Len(heap) < MaxObjects IN
      /\ \A u \in Users :
           /\ ENABLED SeatLockThrows(r, u) <=> status # AVAILABLE
           /\ room => (ENABLED SeatLock(r, u) <=> status = AVAILABLE)
      /\ ENABLED SeatSellThrows(r) <=> status # LOCKED
      /\ room => (ENABLED SeatSell(r) <=> status = LOCKED)
      /\ ENABLED SeatReleaseThrows(r) <=> status # LOCKED
      /\ room => (ENABLED SeatRelease(r) <=> status = LOCKED)

C26_GuardedTransitions == []C26_Enabled /\ [][C26_Step]_vars

\* lock() was refused on a SOLD instance, and the instances are still just
\* the created one, the locked one and the sold one
C26_Witness ==
  /\ thrown.name = "Error"
  /\ thrown.message = <<"Cannot", "lock", "seat: current status is", SOLD>>
  /\ Len(heap) = 3

\* C27: the cached save writes to the store first; the step of the store
\* write touches no cache key; a store write that fails (ConcurrencyConflict
\* or duplicate key) ends the call with that error and nothing is deleted or
\* written in the cache; only after a store write that succeeded are the
\* seat's key and then the seat list's key deleted, and the saved seat is
\* returned.
C27_Step ==
  \A p \in Procs :
    /\ Moved(p, "save") =>
         /\ cache' = cache /\ ttl' = ttl
         /\ pc'[p] \in {"delseat", "done"}
         /\ pc'[p] = "delseat" => db' # db /\ raised'[p] = NoError
         /\ pc'[p] = "done" =>
              /\ db' = db
              /\ result'[p].outcome \in {"ConcurrencyConflict", "DuplicateKey"}
              /\ raised'[p] # NoError
    /\ Moved(p, "delseat") =>
         /\ cache' = [cache EXCEPT ![SeatKey(nxt[p].id)] = NoSeat]
         /\ pc'[p] = "delevent"
         /\ db' = db
    /\ Moved(p, "delevent") =>
         /\ cache' = [cache EXCEPT ![EventSeatsKey(nxt[p].eventId)] = NoSeat]
         /\ pc'[p] = "done"
         /\ result'[p] = [outcome |-> "ok", seat |-> nxt[p], status |-> NULL]
         /\ db' = db

\* a call that is deleting has written its version
C27_DeleteAfterWrite ==
  \A p \in Procs :
    Written(p) =>
      /\ db[nxt[p].id] # NoSeat
      /\ db[nxt[p].id].version >= nxt[p].version
      /\ \E i \in 1..Len(commits[nxt[p].id]) : commits[nxt[p].id][i] = nxt[p].version

C27_StoreFirst == []C27_DeleteAfterWrite /\ [][C27_Step]_vars

\* a save has failed with ConcurrencyError and both keys are still there
C27_Witness ==
  \E p \in Procs :
    /\ pc[p] = "done"
    /\ raised[p].name = "ConcurrencyError"
    /\ cache[SeatKey("s1")] # NoSeat
    /\ cache[EventSeatsKey("evt-1")] # NoSeat

\* C28: findByIdWithVersion neither reads nor writes the cache: whatever the
\* cache holds, it returns the current row of the store if that row's
\* version equals expectedVersion, and nothing otherwise.
C28_Step ==
  \A p \in Procs :
    (pc[p] = "verread" /\ pc'[p] # "verread") =>
      /\ cache' = cache /\ ttl' = ttl /\ db' = db
      /\ pc'[p] = "done"
      /\ result'[p].outcome = "ok"
      /\ result'[p].seat =
           IF db[argSeat[p]] # NoSeat /\ db[argSeat[p]].version = argVersion[p]
             THEN fromPersistence(db[argSeat[p]])
             ELSE NoSeat

C28_BypassesCache == [][C28_Step]_vars

\* the cache holds the seat at the version asked for, the store has moved
\* on, and the call has returned nothing
C28_Witness ==
  \E p \in Procs :
    /\ pc[p] = "done" /\ op[p] = "findByIdWithVersion"
    /\ cache[SeatKey(argSeat[p])] # NoSeat
    /\ cache[SeatKey(argSeat[p])].version = argVersion[p]
    /\ db[argSeat[p]] # NoSeat
    /\ db[argSeat[p]].version # argVersion[p]
    /\ result[p].seat = NoSeat

\* C29: reads through the cache. A hit of findById / findByEventId returns
\* the cached value and the store is not read; a miss reads the store,
\* returns what it gave and stores it under the TTL of 60 seconds, except
\* that an absent seat and an empty list are returned without being cached.
C29_Step ==
  \A p \in Procs :
    /\ Moved(p, "get") =>
         LET cached == cache[SeatKey(argSeat[p])] IN
           /\ cache' = cache /\ db' = db
           /\ IF cached # NoSeat
                THEN pc'[p] = "check" /\ cur'[p] = fromPersistence(cached)
                ELSE pc'[p] = "dbread"
    /\ Moved(p, "dbread") =>
         /\ cache' = cache /\ db' = db
         /\ IF db[argSeat[p]] = NoSeat
              THEN pc'[p] = "check" /\ cur'[p] = NoSeat
              ELSE pc'[p] = "cacheset" /\ cur'[p] = fromPersistence(db[argSeat[p]])
    /\ Moved(p, "cacheset") =>
         /\ cache' = [cache EXCEPT ![SeatKey(argSeat[p])] = toJSON(cur[p])]
         /\ ttl' = [ttl EXCEPT ![SeatKey(argSeat[p])] = 60]
         /\ pc'[p] = "check" /\ cur'[p] = cur[p]
    /\ Moved(p, "listget") =>
         LET cached == cache[EventSeatsKey(argEvent[p])] IN
           /\ cache' = cache /\ db' = db
           /\ IF cached # NoSeat
                THEN /\ pc'[p] = "done"
                     /\ result'[p].outcome = "ok"
                     /\ Len(result'[p].seats) = Len(cached.seats)
                     /\ \A i \in 1..Len(cached.seats) :
                          result'[p].seats[i] = fromPersistence(cached.seats[i])
                ELSE pc'[p] = "listread"
    /\ Moved(p, "listread") =>
         LET seats == RepoFindByEventId(db, argEvent[p]) IN
           /\ cache' = cache /\ db' = db
           /\ IF seats = <<>>
                THEN pc'[p] = "done" /\ result'[p].seats = <<>>
                ELSE pc'[p] = "listset" /\ cur'[p].seats = seats
    /\ Moved(p, "listset") =>
         /\ cache' = [cache EXCEPT ![EventSeatsKey(argEvent[p])] =
                        [seats |-> [i \in 1..Len(cur[p].seats) |-> toJSON(cur[p].seats[i])]]]
         /\ ttl' = [ttl EXCEPT ![EventSeatsKey(argEvent[p])] = 60]
         /\ pc'[p] = "done"
         /\ result'[p].seats = cur[p].seats

C29_Cached ==
  /\ \A s \in SeatIds : cache[SeatKey(s)] # NoSeat => db[s] # NoSeat
  /\ \A e \in EventIds :
       cache[EventSeatsKey(e)] # NoSeat => cache[EventSeatsKey(e)].seats # <<>>
  /\ \A k \in CacheKeys : ttl[k] = IF cache[k] # NoSeat THEN 60 ELSE 0

C29_ReadThrough == []C29_Cached /\ [][C29_Step]_vars

\* a seat list has been answered from the cache although the store holds a
\* different list by now, and the list of the event without seats, asked
\* for before, is not in the cache
C29_Witness ==
  \E p \in Procs :
    /\ pc[p] = "done" /\ op[p] = "findByEventId" /\ src[p] = "cache"
    /\ result[p].outcome = "ok"
    /\ result[p].seats # <<>>
    /\ result[p].seats # RepoFindByEventId(db, argEvent[p])
    /\ cache[EventSeatsKey("evt-2")] = NoSeat

\* C24: a failing cache never shows to the caller. While redis commands
\* fail, a get counts as a miss and the store is read, a set and a delete
\* change nothing and the call goes on, and no call ever ends with an error
\* of the cache: findById, findByEventId and save go on exactly as with a
\* cache that works and is empty.
C24_Step ==
  ~redisUp =>
    \A p \in Procs :
      /\ Moved(p, "get") => pc'[p] = "dbread"
      /\ Moved(p, "cacheset") => pc'[p] = "check" /\ cur'[p] = cur[p]
      /\ Moved(p, "delseat") => pc'[p] = "delevent"
      /\ Moved(p, "delevent") =>
           /\ pc'[p] = "done"
           /\ result'[p] = [outcome |-> "ok", seat |-> nxt[p], status |-> NULL]
      /\ Moved(p, "listget") => pc'[p] = "listread"
      /\ Moved(p, "listset") =>
           /\ pc'[p] = "done"
           /\ result'[p].outcome = "ok"
           /\ result'[p].seats = cur[p].seats
      /\ (pc'[p] # pc[p] /\ pc[p] \notin {"idle", "done"}) =>
           cache' = cache /\ ttl' = ttl

\* what the store read of a miss returns does not depend on the cache
C24_StoreRead ==
  \A p \in Procs :
    /\ Moved(p, "dbread") =>
         cur'[p] = IF db[argSeat[p]] = NoSeat THEN NoSeat
                   ELSE fromPersistence(db[argSeat[p]])
    /\ Moved(p, "listread") =>
         \/ pc'[p] = "listset" /\ cur'[p].seats = RepoFindByEventId(db, argEvent[p])
         \/ pc'[p] = "done" /\ result'[p].seats = RepoFindByEventId(db, argEvent[p])

C24_Outcomes ==
  \A p \in Procs :
    pc[p] = "done" => result[p].outcome \in {"ok", "DuplicateKey"} \cup Failures

C24_CacheFailuresHidden == []C24_Outcomes /\ [][C24_Step /\ C24_StoreRead]_vars

\* the only call so far, a lockSeat, has returned its seat while redis is
\* down, and the entry its save could not delete is still in the cache
C24_Witness ==
  /\ ~redisUp
  /\ nops = 1
  /\ pc["p1"] = "done" /\ op["p1"] = "lockSeat"
  /\ result["p1"].outcome = "ok"
  /\ cache[SeatKey("s1")] # NoSeat
  /\ cache[SeatKey("s1")].version < result["p1"].seat.version


\* ---------------------------------------------------------------- C36
\* the store write of a confirmSale or releaseSeat goes through only on the
\* row the call read, which its ownership check has accepted; on any other
\* row the call ends with ConcurrencyConflict and the table is left alone
C36_Step ==
  \A p \in Procs :
    (Moved(p, "save") /\ op[p] \in {"confirmSale", "releaseSeat"}) =>
      IF pc'[p] = "delseat"
        THEN /\ db[argSeat[p]] # NoSeat
             /\ db[argSeat[p]].status = LOCKED
             /\ db[argSeat[p]].userId = argUser[p]
             /\ db[argSeat[p]] = toJSON(cur[p])
        ELSE /\ db[argSeat[p]] # toJSON(cur[p])
             /\ result'[p].outcome = "ConcurrencyConflict"
             /\ db' = db

\* a call never reaches the store write without having seen the seat LOCKED
\* by its user, and a confirmSale that returned a seat left it SOLD to them
C36_Validated ==
  \A p \in Procs :
    /\ (pc[p] = "save" /\ op[p] \in {"confirmSale", "releaseSeat"}) =>
         (cur[p].status = LOCKED /\ cur[p].userId = argUser[p])
    /\ (Finished(p, "confirmSale") /\ result[p].outcome = "ok") =>
         (db[argSeat[p]].status = SOLD /\ db[argSeat[p]].userId = argUser[p])

\* C36: whenever confirmSale(seatId, u) succeeds the persisted row right
\* before its write was LOCKED with holder u; a confirmSale or releaseSeat
\* that checked ownership on a stale read fails with ConcurrencyConflict
\* instead of selling or releasing another user's lock.
C36_SaleOnOwnLock == []C36_Validated /\ [][C36_Step]_vars

\* u1's confirmSale read its lock, the seat was then released and locked by
\* u2, and the confirmSale ended with ConcurrencyConflict on u2's lock
C36_Witness ==
  /\ db["s1"].status = LOCKED /\ db["s1"].userId = "u2"
  /\ \E p \in Procs : /\ Finished(p, "confirmSale")
                      /\ argSeat[p] = "s1" /\ argUser[p] = "u1"
                      /\ result[p].outcome = "ConcurrencyConflict"
  /\ okCalls["s1"]["releaseSeat"] = 1

\* ---------------------------------------------------------------- C37
\* from one state to the next a row that stays LOCKED keeps its holder, and
\* a lockSeat whose write meets a LOCKED row is turned away
C37_Step ==
  /\ \A s \in SeatIds :
       (db[s] # NoSeat /\ db[s].status = LOCKED /\ db'[s].status = LOCKED) =>
         db'[s].userId = db[s].userId
  /\ \A p \in Procs :
       (Moved(p, "save") /\ op[p] = "lockSeat" /\ db[argSeat[p]].status # AVAILABLE) =>
         (result'[p].outcome = "ConcurrencyConflict" /\ db' = db)

\* C37: while a seat's persisted status stays LOCKED its holder never
\* changes: a lockSeat by another user never overwrites a lock, whatever the
\* interleaving and the cache content; the holder changes only through a
\* persisted AVAILABLE state in between.
C37_HolderStable == [][C37_Step]_vars

\* u2's lockSeat was served the AVAILABLE row from the cache while u1 held
\* the lock, went on to the store write and was turned away there
C37_Witness ==
  /\ db["s1"].status = LOCKED /\ db["s1"].userId = "u1"
  /\ cache[SeatKey("s1")] # NoSeat /\ cache[SeatKey("s1")].status = AVAILABLE
  /\ \E p \in Procs : /\ Finished(p, "lockSeat")
                      /\ argSeat[p] = "s1" /\ argUser[p] = "u2"
                      /\ result[p].outcome = "ConcurrencyConflict"

\* ---------------------------------------------------------------- C38
C38_Events ==
  /\ \A s \in SeatIds : EventsOf(s, "SEAT_SOLD") <= 1
  /\ \A i \in 1..Len(scheduled) :
       scheduled[i].eventType = "SEAT_SOLD" =>
         /\ scheduled[i].queue = TICKET_GENERATION_QUEUE
         /\ db[scheduled[i].seatId].status = SOLD
         /\ db[scheduled[i].seatId].userId = scheduled[i].userId
  /\ \A p \in Procs :
       pc[p] \in {"delseat", "delevent"} =>
         \E i \in 1..Len(commits[nxt[p].id]) : commits[nxt[p].id][i] = nxt[p].version

C38_Step ==
  /\ \A p \in Procs :
       (Moved(p, "save") /\ pc'[p] = "delseat") =>
         (db'[argSeat[p]] = toJSON(nxt[p]) /\ nxt'[p] = nxt[p])
  /\ \A p \in Procs :
       (pc[p] = "delseat" /\ pc'[p] # "done") => nxt'[p] = nxt[p]
  /\ scheduled' # scheduled =>
       \E p \in Procs :
         /\ Moved(p, "delevent")
         /\ scheduled' = Append(scheduled, scheduled'[Len(scheduled')])
         /\ scheduled'[Len(scheduled')].seatId = nxt[p].id
         /\ scheduled'[Len(scheduled')].userId = nxt[p].userId
         /\ scheduled'[Len(scheduled')].eventType = "SEAT_LOCKED" =>
              (op[p] = "lockSeat" /\ nxt[p].status = LOCKED)

\* C38: for each seat at most one SoldEvent is ever dispatched, it goes to
\* the ticket-generation queue and names the holder of the persisted SOLD
\* row; each LockedEvent names the holder that the lockSeat dispatching it
\* has persisted.
C38_EventsNameHolder == []C38_Events /\ [][C38_Step]_vars

\* both users have locked the seat in turn, each lock was announced with
\* its own holder, and the sale of the second lock was announced once
C38_Witness ==
  /\ Len(scheduled) = 3
  /\ scheduled[1].eventType = "SEAT_LOCKED" /\ scheduled[1].userId = "u1"
  /\ scheduled[2].eventType = "SEAT_LOCKED" /\ scheduled[2].userId = "u2"
  /\ scheduled[3].eventType = "SEAT_SOLD" /\ scheduled[3].userId = "u2"
  /\ scheduled[3].seatId = "s1"

\* ---------------------------------------------------------------- C39
\* a cached row is never ahead of the table, and at the table's version it
\* is the table's row; the same holds for a row read from the table that is
\* about to be written to the cache
C39_Behind(row, s) ==
  /\ db[s] # NoSeat
  /\ row.id = s
  /\ row.version <= db[s].version
  /\ row.version = db[s].version => row = db[s]
  /\ row.version = 1 \/ \E i \in 1..Len(commits[s]) : commits[s][i] = row.version

C39_CachedRows ==
  /\ \A s \in SeatIds :
       cache[SeatKey(s)] # NoSeat => C39_Behind(cache[SeatKey(s)], s)
  /\ \A p \in Procs :
       pc[p] = "cacheset" => (src[p] = "db" /\ C39_Behind(toJSON(cur[p]), argSeat[p]))

\* the cache gets a row only in findById's cache.set, and that row is the
\* one the same call has read from the table
C39_Step ==
  /\ \A p \in Procs :
       Moved(p, "dbread") => cur'[p] = RepoFindById(db, argSeat[p])
  /\ \A p \in Procs :
       (pc[p] = "cacheset" /\ pc'[p] = "cacheset") => cur'[p] = cur[p]
  /\ \A s \in SeatIds :
       (cache'[SeatKey(s)] # cache[SeatKey(s)] /\ cache'[SeatKey(s)] # NoSeat) =>
         \E p \in Procs : /\ Moved(p, "cacheset")
                          /\ argSeat[p] = s
                          /\ cache'[SeatKey(s)] = toJSON(cur[p])

\* C39: every value in the per-seat cache is a row the table held for that
\* id at that moment or earlier, so its version is at most the table's; the
\* cache never holds a row that was not persisted, such as the result of a
\* save that failed.
C39_CacheHoldsStoredRows == []C39_CachedRows /\ [][C39_Step]_vars

\* the cache holds an older row of the seat than the table, and a save of
\* the seat has failed
C39_Witness ==
  /\ cache[SeatKey("s1")] # NoSeat
  /\ cache[SeatKey("s1")].version < db["s1"].version
  /\ \E p \in Procs : pc[p] = "done" /\ argSeat[p] = "s1"
                        /\ result[p].outcome = "ConcurrencyConflict"

\* ---------------------------------------------------------------- C33
RECURSIVE Pow(_, _)
Pow(b, n) == IF n = 0 THEN 1 ELSE b * Pow(b, n - 1)

Connecting == {t \in Tasks : publishing[t].pc \in {"connect", "backoff"}}

C33_Attempts ==
  /\ attempt \in 0..maxRetries
  /\ Cardinality(Connecting) <= 1
  /\ isConnecting <=> Connecting # {}
  /\ \A t \in Tasks :
       publishing[t].pc = "backoff" =>
         /\ attempt < maxRetries
         /\ delay = Min(initialDelayMs * Pow(backoffMultiplier, attempt - 1), maxDelayMs)

\* an attempt ends in a connection, in a sleep before the next attempt, or,
\* when it was the last one, in the error of connect() with no sleep
C33_Step ==
  \A t \in Tasks :
    (publishing[t].pc = "connect" /\ publishing'[t].pc # "connect") =>
      \/ /\ publishing'[t].pc = "backoff"
         /\ attempt < maxRetries
         /\ attempt' = attempt
      \/ /\ connection' # NULL /\ channel' # NULL
         /\ ~isConnecting'
      \/ /\ publishing'[t].cause = "connect-failed"
         /\ attempt = maxRetries
         /\ ~isConnecting'

\* C33: connect makes at most maxRetries (5) attempts; the wait before
\* attempt k+1 is min(initialDelayMs * backoffMultiplier^(k-1), maxDelayMs)
\* and there is none after the last attempt; the call ends connected or
\* with an error, and isConnecting is false afterwards.
C33_BoundedBackoff ==
  /\ []C33_Attempts
  /\ [][C33_Step]_vars
  /\ (isConnecting ~> ~isConnecting)

\* the fourth attempt has failed and the call sleeps 8000 ms before the last
C33_Witness ==
  /\ \E t \in Tasks : publishing[t].pc = "backoff"
  /\ attempt = maxRetries - 1
  /\ delay = 8000

\* ---------------------------------------------------------------- C34
FailedToConnect == \E u \in Tasks : publishing[u].cause = "connect-failed"

C34_SparedStep ==
  \A t \in Tasks :
    (publishing[t].pc = "wait" /\ FailedToConnect /\ ~isConnecting /\ ~isConnected) =>
      publishing'[t].cause \in {NULL, "sent"}

\* C34: when the attempt sequence fails, only the call that made the
\* attempts fails; a publish call waiting behind it in waitForConnection
\* is not failed by it.
C34_WaitersSpared == [][C34_SparedStep]_vars

C34_Step ==
  \A t \in Tasks :
    /\ (publishing'[t].cause = "connect-failed" /\ publishing[t].cause = NULL) =>
         (publishing[t].pc = "connect" /\ attempt = maxRetries)
    /\ (publishing[t].pc = "wait" /\ publishing'[t].pc # "wait") =>
         IF ~isConnecting /\ isConnected
           THEN publishing'[t].cause \in {NULL, "sent", "send-failed"}
           ELSE /\ publishing'[t].cause = "wait-timeout"
                /\ publishing'[t].pc = "resolved"

\* C34 (amended): the error of the failed attempt sequence goes to the
\* connecting call alone; a call waiting behind it fails too, with the
\* 'Connection timeout' error of waitForConnection, whenever its wait ends
\* without the client being connected, and goes on to publish otherwise.
C34_WaitersTimeOut == [][C34_Step]_vars

\* the connecting call has failed after its last attempt and a call that
\* waited behind it has failed with the timeout error
C34_Witness ==
  /\ FailedToConnect
  /\ \E t \in Tasks : publishing[t].cause = "wait-timeout"
  /\ ~isConnected

\* ---------------------------------------------------------------- C35
C35_Asserted ==
  /\ assertedOnChannel \subseteq assertedQueues
  /\ channel = "open" => assertedQueues = assertedOnChannel
  /\ channel = NULL => assertedQueues = {}
  /\ Cardinality(Connecting) <= 1

C35_Step ==
  /\ (connection # NULL /\ channel # NULL /\ connection' = NULL) =>
       (channel' = NULL /\ assertedQueues' = {})
  /\ Len(publishing') > Len(publishing) =>
       LET t == Len(publishing') IN
         IF isConnected THEN publishing'[t].pc = "ensured"
         ELSE /\ publishing'[t].pc \in {"connect", "wait"}
              /\ isConnecting'
  /\ sent' # sent =>
       /\ channel' = "open"
       /\ sent'[Len(sent')].content.value.eventType = "SEAT_SOLD" =>
            EVENT_QUEUES.TICKET_GENERATION \in assertedOnChannel'
       /\ sent'[Len(sent')].content.value.eventType = "SEAT_LOCKED" =>
            EVENT_QUEUES.NOTIFICATION \in assertedOnChannel'

C40_Step ==
  (lingering' < lingering /\ connection # NULL /\ channel # NULL) =>
    UNCHANGED <<connection, channel, assertedQueues>>

\* C40: once the client has connected again after a disconnect, an error
\* or close event that the replaced connection emits late leaves the
\* connection, the channel and the asserted queues of the new connection
\* as they are.
C40_LateEventHarmless == [][C40_Step]_vars

\* ---------------------------------------------------------------- C31
Processing == {d \in inflight : d.pc \in {"generatePDF", "sendEmailNotification"}}

C32_WorkerUsesRequestId ==
  \A d \in Processing :
    \A t \in Tasks :
      (publishing[t].msgId = d.msg.id /\ publishing[t].requestId \in CorrelationIds) =>
        currentCorrelationId = publishing[t].requestId

\* what does hold: the header of a published message is the id the publisher
\* computed, which is the event's own id if it has one and otherwise what
\* getCorrelationId() gave, and the worker adopts that header
C32_HeaderFromPublisher ==
  /\ \A t \in Tasks :
       publishing[t].msgId # 0 =>
         /\ sent[publishing[t].msgId].headers.xCorrelationId = publishing[t].correlationId
         /\ publishing[t].correlationId =
              IF "correlationId" \in DOMAIN scheduled[t]
                THEN scheduled[t].correlationId
                ELSE uuidv4("publisher", t)
  /\ \A d \in Processing : currentCorrelationId = d.msg.headers.xCorrelationId
====
